---- MODULE Spec2Model ----
(***************************************************************************)
(* Verification model of the render engine's template selection engine     *)
(* (templates/registry.ts), its rotation-state store (services/airtable.ts)*)
(* and the remote image cache (engine/asset-loader.ts).                    *)
(*                                                                         *)
(* Six specifications share the variables below:                          *)
(*   SpecHash    simpleHash / hashBasedSelect as pure functions            *)
(*   SpecPool    getRotationPool over catalogs produced by syncFromAirtable*)
(*   SpecRotate  selectFromPool called repeatedly on a fixed pool          *)
(*   SpecSelect  concurrent autoSelectTemplate calls against the store     *)
(*   SpecRace    two autoSelectTemplate calls racing on one company record *)
(*   SpecCache   concurrent loadRemoteImage calls against imageCache       *)
(***************************************************************************)
EXTENDS Integers, Sequences, FiniteSets, TLC

VARIABLES
    hashIn,                 \* SpecHash: [imageCount, recordId] handed to hashBasedSelect
    hashOut,                \* SpecHash: what hashBasedSelect computed for hashIn
    templatesByAirtableId,  \* registry.ts: Map record id -> TemplateWithMeta
    templatesByTemplateId,  \* registry.ts: Map template id -> TemplateWithMeta
    poolArgs,               \* SpecPool: the arguments of the getRotationPool call
    pool,                   \* SpecPool / SpecRotate: the pool returned / rotated over
    rotState,               \* SpecRotate: the RotationState fed to the next call
    rotFormat,              \* SpecRotate: the format the calls rotate
    picks,                  \* SpecRotate: the results of the calls so far
    store,                  \* Airtable companies table: template_rotation_state per company
    calls,                  \* SpecSelect: the autoSelectTemplate invocations
    imageCache,             \* asset-loader.ts: Map url -> Image, in insertion order
    loads,                  \* SpecCache: the loadRemoteImage invocations
    fetches,                \* SpecCache: number of fetch() calls issued so far
    lastEvicted,            \* SpecCache: what the latest cache insertion deleted
    batch,                  \* SpecBatch: the loadAllImages invocation
    mp4,                    \* SpecMp4: the renderMp4 invocation
    tmpDirs,                \* the temporary directories made so far, in creation order
    encoder,                \* the FFmpeg process renderMp4 has started
    paint,                  \* SpecPaint: the renderPng invocation and its canvas
    job,                    \* SpecJob: the POST /api/render/sync request being handled
    registry,               \* SpecSync: the Templates table, the refreshes and the save request
    wrapped,                \* SpecWrap: a wrapText call and its result
    resolved                \* SpecResolve: a resolveVariables call and its result

hashVars   == <<hashIn, hashOut>>
catVars    == <<templatesByAirtableId, templatesByTemplateId>>
poolVars   == <<poolArgs, pool>>
rotVars    == <<rotState, rotFormat, picks>>
selVars    == <<store, calls>>
cacheVars  == <<imageCache, loads, fetches, lastEvicted>>
batchVars  == <<batch>>
mp4Vars    == <<mp4, tmpDirs, encoder>>
paintVars  == <<paint>>
jobVars    == <<job>>
syncVars   == <<registry>>
textVars   == <<wrapped, resolved>>
engineVars == <<batchVars, mp4Vars, paintVars, jobVars, syncVars, textVars>>
vars == <<hashVars, catVars, poolVars, rotVars, selVars, cacheVars, engineVars>>

\* JavaScript's missing value (undefined / null).
Undefined == "undefined"

(***************************************************************************)
(* JavaScript number helpers                                               *)
(***************************************************************************)

\* a % n of JavaScript for n > 0: the remainder takes the sign of a.
JsRem(a, n) == IF a >= 0 THEN a % n ELSE -((-a) % n)

\* Math.abs
MathAbs(a) == IF a < 0 THEN -a ELSE a

\* A 32-bit pattern is kept as two 16-bit halves <<hi, lo>> so that no
\* intermediate value leaves TLC's integer range.
Half == 65536

\* ToInt32 of a pattern: the signed reading of the 32 bits.
ToInt32(w) == IF w[1] >= 32768 THEN (w[1] - Half) * Half + w[2] ELSE w[1] * Half + w[2]

\* The 32-bit pattern of a signed 32-bit integer.
Bits(h) == <<(h \div Half) % Half, h % Half>>

\* (hash << 5): the pattern shifted left by five bits, high bits lost.
Shl5(w) == <<(w[1] * 32 + (w[2] * 32) \div Half) % Half, (w[2] * 32) % Half>>

\* ToInt32(a - b + c) for 32-bit patterns a, b and a char code c, which is
\* what `hash & hash` makes of ((hash << 5) - hash) + char.
SubAdd(a, b, c) ==
    LET lo == a[2] - b[2] + c
        hi == a[1] - b[1] + (lo \div Half)
    IN  <<hi % Half, lo % Half>>

\* One round of simpleHash's loop body on the signed value hash.
HashStep(hash, char) == ToInt32(SubAdd(Shl5(Bits(hash)), Bits(hash), char))

RECURSIVE HashLoop(_, _, _)
HashLoop(str, i, hash) ==
    IF i > Len(str) THEN hash ELSE HashLoop(str, i + 1, HashStep(hash, str[i]))

\* simpleHash without the final Math.abs.
SimpleHashSigned(str) == HashLoop(str, 1, 0)

\* simpleHash(str): str is the sequence of the string's UTF-16 char codes.
SimpleHash(str) == MathAbs(HashLoop(str, 1, 0))

\* The option lists of hashBasedSelect.
Options2 == <<"main-2-image", "before-after">>
Options3 == <<"main-1-image", "main-2-image", "before-after">>

\* options[i] of a JavaScript array (0-based); undefined outside it.
At(options, i) == IF i >= 0 /\ i < Len(options) THEN options[i + 1] ELSE Undefined

\* The template ids loadBuiltinTemplates reads from disk.
BuiltinIds ==
    {"main-2-image", "before-after", "main-1-image", "slideshow-base", "bold-diagonal",
     "card-stack", "hero-banner", "minimal-split", "gradient-overlay"}

(***************************************************************************)
(* Templates and the catalog (registry.ts, in-memory stores)               *)
(***************************************************************************)

\* The value a lookup that finds nothing yields (undefined), as a template.
NoTemplate ==
    [id |-> Undefined, outputFormat |-> Undefined, imageCount |-> 0, origin |-> Undefined,
     frames |-> 0]

\* builtinTemplates: the definitions read from the builtin directory, keyed by
\* their id. Only id, outputFormat and imageCount matter to selection; frames
\* is the number of frames (the slideshow has two, a still has one).
BuiltinTemplate(id) ==
    [id |-> id,
     outputFormat |-> IF id = "slideshow-base" THEN "mp4" ELSE "png",
     imageCount |-> IF id = "main-1-image" THEN 1
                    ELSE IF id = "slideshow-base" THEN 3 ELSE 2,
     origin |-> "builtin",
     frames |-> IF id = "slideshow-base" THEN 2 ELSE 1]

\* An empty Map.
EmptyMap == [k \in {} |-> NoTemplate]

\* Map.set(k, v)
MapSet(m, k, v) == [x \in DOMAIN m \cup {k} |-> IF x = k THEN v ELSE m[x]]

\* Math.max(0, rec.rotation_weight ?? 1); weights are kept in tenths, so that
\* 4 is 0.4, 25 is 2.5 and 150 is 15.
SyncedWeight(rotation_weight) == IF rotation_weight > 0 THEN rotation_weight ELSE 0

\* The body of syncFromAirtable's loop for one record: the maps after it.
SyncRecord(maps, rec) ==
    LET useBuiltin == rec.builtin_id # "" /\ rec.builtin_id \in BuiltinIds
        useJson    == ~useBuiltin /\ rec.template_json.kind = "valid"
        template   == IF useBuiltin THEN BuiltinTemplate(rec.builtin_id)
                      ELSE rec.template_json.template
        meta       == [template |-> template,
                       airtableRecordId |-> rec.id,
                       rotationWeight |-> SyncedWeight(rec.rotation_weight),
                       categoryKeys |-> rec.category_keys]
    IN  IF ~rec.template_active THEN maps
        ELSE IF ~(useBuiltin \/ useJson) THEN maps
        ELSE [byAirtableId |-> MapSet(maps.byAirtableId, rec.id, meta),
              byTemplateId |-> MapSet(maps.byTemplateId, template.id, meta)]

RECURSIVE SyncLoop(_, _, _)
SyncLoop(records, i, maps) ==
    IF i > Len(records) THEN maps
    ELSE SyncLoop(records, i + 1, SyncRecord(maps, records[i]))

\* A rebuild that stops after the first record, as one that yields inside
\* its loop would be seen (a faulty variant, used to test C22).
SyncFromAirtableYields(records) ==
    SyncLoop(SubSeq(records, 1, IF Len(records) > 1 THEN 1 ELSE Len(records)), 1,
             [byAirtableId |-> EmptyMap, byTemplateId |-> EmptyMap])

\* syncFromAirtable when fetchAllTemplates succeeded: the maps are cleared and
\* rebuilt from the records.
SyncFromAirtable(records) ==
    SyncLoop(records, 1, [byAirtableId |-> EmptyMap, byTemplateId |-> EmptyMap])

\* A fallback that overwrites a catalog that still has templates (a faulty
\* variant, used to test C28).
EnsureBuiltinsAlways(byTemplateId) ==
    [id \in BuiltinIds |->
        [template |-> BuiltinTemplate(id), airtableRecordId |-> 0,
         rotationWeight |-> 10, categoryKeys |-> {}]]

\* ensureBuiltinsFallback applied to a templatesByTemplateId map.
EnsureBuiltinsFallback(byTemplateId) ==
    IF DOMAIN byTemplateId # {} THEN byTemplateId
    ELSE [id \in BuiltinIds |->
            [template |-> BuiltinTemplate(id), airtableRecordId |-> 0,
             rotationWeight |-> 10, categoryKeys |-> {}]]

\* initRegistry: sync, then the fallback when nothing was synced.
InitRegistry(records) ==
    LET maps == SyncFromAirtable(records)
    IN  [byAirtableId |-> maps.byAirtableId,
         byTemplateId |-> EnsureBuiltinsFallback(maps.byTemplateId)]

\* getTemplate(id)
GetTemplate(id) ==
    IF id \in DOMAIN templatesByTemplateId THEN templatesByTemplateId[id].template
    ELSE IF id \in BuiltinIds THEN BuiltinTemplate(id)
    ELSE NoTemplate

(***************************************************************************)
(* Hash fallback                                                           *)
(***************************************************************************)

\* A fallback whose pick also depends on the rotation state the company
\* records hold (a faulty variant, used to test C6).
HashBasedSelectStateful(imageCount, recordId) ==
    LET seed == Cardinality({c \in DOMAIN store : store[c].present /\ store[c].text[2] % 2 = 1})
        hash == SimpleHash(recordId) + seed
    IN  IF imageCount <= 1 THEN GetTemplate("main-1-image")
        ELSE IF imageCount = 2
             THEN GetTemplate(At(Options2, JsRem(hash, Len(Options2))))
             ELSE GetTemplate(At(Options3, JsRem(hash, Len(Options3))))

\* hashBasedSelect(imageCount, recordId)
HashBasedSelect(imageCount, recordId) ==
    LET hash == SimpleHash(recordId)
    IN  IF imageCount <= 1 THEN GetTemplate("main-1-image")
        ELSE IF imageCount = 2
             THEN GetTemplate(At(Options2, JsRem(hash, Len(Options2))))
             ELSE GetTemplate(At(Options3, JsRem(hash, Len(Options3))))

(***************************************************************************)
(* Idle values: what a specification leaves the other parts at             *)
(***************************************************************************)

HashIdle ==
    /\ hashIn = [imageCount |-> 0, recordId |-> <<>>]
    /\ hashOut = [done |-> FALSE, hash |-> 0, template |-> NoTemplate]

PoolIdle ==
    /\ poolArgs = [called |-> FALSE, format |-> "png", imageCount |-> 0,
                   filtered |-> FALSE, categoryKeys |-> {}]
    /\ pool = <<>>

RotIdle ==
    /\ rotState = [png |-> [lastIndex |-> 0], mp4 |-> [lastIndex |-> 0]]
    /\ rotFormat = "png"
    /\ picks = <<>>

\* The company records that hold a rotation state, and the concurrent
\* autoSelectTemplate invocations.
Companies == {"recCompanyA"}
Procs == {1, 2}

\* The template_rotation_state field of a company record: unset, or the JSON
\* text of a RotationState (kept as its sequence of keys and numbers).
NoRaw == [present |-> FALSE, text |-> <<>>]

\* DEFAULT_ROTATION_STATE
DefaultRotationState == [png |-> [lastIndex |-> 0], mp4 |-> [lastIndex |-> 0]]

IdleCall ==
    [pc |-> "idle", imageCount |-> 0, recordId |-> <<>>,
     categoryKeys |-> [given |-> FALSE, keys |-> {}],
     preferMp4 |-> FALSE, postType |-> Undefined, companyId |-> "",
     format |-> "png", pool |-> <<>>,
     state |-> DefaultRotationState, updatedState |-> DefaultRotationState,
     selected |-> NoTemplate, result |-> NoTemplate, path |-> "none",
     readFailed |-> FALSE, writeFailed |-> FALSE, peerStarts |-> 0]

SelIdle ==
    /\ store = [c \in Companies |-> NoRaw]
    /\ calls = [p \in Procs |-> IdleCall]

\* The loadRemoteImage invocations that can be in flight at once: two
\* independent callers, or the images of one batch or one render job.
Loaders == 1..4

\* The independent callers of loadRemoteImage.
CacheLoaders == {1, 2}

\* No Image (a load that has not produced one).
NoImage == [url |-> 0, serial |-> 0]

IdleLoad == [pc |-> "idle", url |-> 0, img |-> NoImage, outcome |-> "none", ticket |-> 0]

NoEviction == [inserted |-> 0, evicted |-> <<>>, sizeBefore |-> 0, wasCached |-> FALSE]

CacheIdle ==
    /\ imageCache = <<>>
    /\ loads = [p \in Loaders |-> IdleLoad]
    /\ fetches = 0
    /\ lastEvicted = NoEviction

\* loadAllImages has not been called.
IdleBatch == [pc |-> "idle", urls |-> <<>>, results |-> <<>>, rejected |-> FALSE]

\* renderMp4 has not been called.
IdleMp4 ==
    [pc |-> "idle", frames |-> <<>>, transition |-> [type |-> Undefined, durationMs |-> 0],
     tmpDir |-> 0, rendered |-> 0, outcome |-> "none", error |-> "none"]

\* No FFmpeg process has been started.
NoEncoder == [state |-> "none", inputs |-> <<>>, filter |-> <<>>, output |-> 0]

Mp4Idle ==
    /\ mp4 = IdleMp4
    /\ tmpDirs = <<>>
    /\ encoder = NoEncoder

\* A fresh 2d context: globalAlpha 1 (kept in tenths), no shadow, and an
\* empty stack of saved states.
NewContext == [alpha |-> 10, shadow |-> FALSE, stack |-> <<>>]

\* A frame with a solid background and no layers.
NoFrame == [background |-> [type |-> "solid", index |-> 0], layers |-> <<>>]

\* renderPng has not been called.
IdlePaint ==
    [called |-> FALSE, frame |-> NoFrame, userImages |-> 0, logoImage |-> FALSE,
     ctx |-> NewContext, drawn |-> <<>>, steps |-> <<>>, ops |-> <<>>,
     result |-> "none"]

\* No template (the lookups and autoSelectTemplate found none).
NoJobTemplate == [outputFormat |-> Undefined, frames |-> <<>>]

\* A job record without images that needs a render.
EmptyRecord ==
    [skip |-> "none", template |-> NoJobTemplate, user_images |-> <<>>,
     logo_url |-> 0, square_cta_image_url |-> 0, landscape_cta_image_url |-> 0]

\* No request has arrived.
IdleJob ==
    [pc |-> "idle", record |-> EmptyRecord, template |-> NoJobTemplate, urls |-> <<>>,
     renderStarted |-> FALSE, userImages |-> 0, images |-> <<>>, error |-> "",
     responses |-> <<>>, escaped |-> FALSE, writes |-> <<>>]

\* The callers of syncFromAirtable: the periodic timer, a manual refresh and
\* the refreshRegistry call of POST /api/design/save.
TimerCaller == "timer"
ManualCaller == "manual"
SaveCaller == "save"
Refreshers == {TimerCaller, ManualCaller, SaveCaller}

\* No POST /api/design/save request has arrived.
IdleSave == [pc |-> "idle", template |-> NoTemplate, responses |-> <<>>]

\* The Templates table is empty, no refresh runs and nothing was saved.
\* fetching: the callers waiting for fetchAllTemplates; last: how the latest
\* syncFromAirtable call ended; lastRecords / refreshed: the records of the
\* latest refresh that rebuilt the catalog.
IdleRegistry ==
    [table |-> <<>>, fetching |-> {}, last |-> [failed |-> FALSE, result |-> 0],
     save |-> IdleSave, lastRecords |-> <<>>, refreshed |-> FALSE]

\* No wrapText call has been made.
IdleWrap == [called |-> FALSE, text |-> <<>>, maxWidth |-> 0, maxLines |-> 0, lines |-> <<>>]

\* No resolveVariables call has been made.
IdleResolve == [called |-> FALSE, text |-> <<>>, title |-> <<>>, out |-> <<>>]

EngineIdle ==
    /\ batch = IdleBatch
    /\ Mp4Idle
    /\ paint = IdlePaint
    /\ job = IdleJob
    /\ registry = IdleRegistry
    /\ wrapped = IdleWrap
    /\ resolved = IdleResolve

(***************************************************************************)
(* SpecHash: hashBasedSelect applied to bounded job ids                    *)
(***************************************************************************)

\* Longest job id (in UTF-16 code units) the hash is applied to.
MaxIdLen == 6

\* Largest image count a job is given.
MaxImages == 4

\* Char codes job ids are made of: '0', 'c', 'z' and the largest code unit.
IdChars == {48, 99, 122, 65535}

JobIdStrings == UNION {[1..n -> IdChars] : n \in 1..MaxIdLen}

\* The registry before any sync (test-render) and after a sync that found nothing.
HashCatalogs == {EmptyMap, EnsureBuiltinsFallback(EmptyMap)}

HashInit ==
    /\ hashIn \in [imageCount : 0..MaxImages, recordId : JobIdStrings]
    /\ hashOut = [done |-> FALSE, hash |-> 0, template |-> NoTemplate]
    /\ templatesByAirtableId = EmptyMap
    /\ templatesByTemplateId \in HashCatalogs
    /\ PoolIdle /\ RotIdle /\ SelIdle /\ CacheIdle /\ EngineIdle

\* One call hashBasedSelect(imageCount, recordId).
ApplyHash ==
    /\ ~hashOut.done
    /\ hashOut' = [done |-> TRUE,
                   hash |-> SimpleHash(hashIn.recordId),
                   template |-> HashBasedSelect(hashIn.imageCount, hashIn.recordId)]
    /\ UNCHANGED <<hashIn, catVars, engineVars, poolVars, rotVars, selVars, cacheVars>>

HashNext == ApplyHash

SpecHash == HashInit /\ [][HashNext]_vars

\* The claim's reference hash: h := (h * 31 + charCode) wrapping at 32 bits,
\* computed on 16-bit halves, read as a signed value.
RECURSIVE Rolling31(_, _, _)
Rolling31(str, i, w) ==
    IF i > Len(str) THEN ToInt32(w)
    ELSE LET lo == w[2] * 31 + str[i]
             hi == w[1] * 31 + (lo \div Half)
         IN  Rolling31(str, i + 1, <<hi % Half, lo % Half>>)

\* The id the claim names for (imageCount, hash).
ClaimedHashPick(imageCount, hash) ==
    IF imageCount <= 1 THEN "main-1-image"
    ELSE IF imageCount = 2 THEN Options2[(hash % 2) + 1]
    ELSE Options3[(hash % 3) + 1]

\* C7: the hash fallback picks main-1-image for 0 or 1 images, option
\* (hash mod 2) of [main-2-image, before-after] for 2 images and option
\* (hash mod 3) of [main-1-image, main-2-image, before-after] for 3 or more,
\* where hash is the absolute value of the 32-bit wrapping rolling hash
\* h := h*31 + charCode; the hash is never negative, so a template is found.
C7_HashPick ==
    hashOut.done =>
        /\ hashOut.hash >= 0
        /\ hashOut.hash = MathAbs(Rolling31(hashIn.recordId, 1, <<0, 0>>))
        /\ hashOut.template.id = ClaimedHashPick(hashIn.imageCount, hashOut.hash)
        /\ hashOut.template # NoTemplate

\* C7 witness: a 3-image job whose rolling hash wrapped to a negative value
\* and was picked by its absolute value.
C7_Witness ==
    /\ hashOut.done
    /\ hashIn.imageCount >= 3
    /\ Rolling31(hashIn.recordId, 1, <<0, 0>>) < 0
    /\ hashOut.template.id = "before-after"

(***************************************************************************)
(* Rotation pool (registry.ts, getRotationPool / selectFromPool)           *)
(***************************************************************************)

\* Math.round of a weight kept in tenths: halves round up.
MathRound(weight) == (weight + 5) \div 10

Min(a, b) == IF a < b THEN a ELSE b
Max(a, b) == IF a > b THEN a ELSE b

\* Expansion without the upper clamp (a faulty variant, used to test C2).
CopiesUnclamped(rotationWeight) == Max(1, MathRound(rotationWeight))

\* Math.min(Math.max(1, Math.round(c.rotationWeight)), 10)
Copies(rotationWeight) == Min(Max(1, MathRound(rotationWeight)), 10)

\* The filter of getRotationPool's first loop, for one catalog entry.
IsCandidate(meta, format, imageCount, categoryKeys) ==
    /\ meta.template.outputFormat = format
    /\ ~(meta.template.imageCount > imageCount)
    /\ (categoryKeys.given /\ categoryKeys.keys # {})
          => (meta.categoryKeys \cap categoryKeys.keys # {})
    /\ ~(meta.rotationWeight <= 0)

\* candidates.sort by airtableRecordId: record ids are numbered in their
\* localeCompare order.
RECURSIVE SortByRecordId(_)
SortByRecordId(metas) ==
    IF metas = {} THEN <<>>
    ELSE LET first == CHOOSE m \in metas :
                          \A o \in metas : m.airtableRecordId <= o.airtableRecordId
         IN  <<first>> \o SortByRecordId(metas \ {first})

\* count copies of one entry
Repeat(meta, count) == [i \in 1..count |-> meta]

RECURSIVE Expand(_, _)
Expand(candidates, i) ==
    IF i > Len(candidates) THEN <<>>
    ELSE Repeat(candidates[i], Copies(candidates[i].rotationWeight))
            \o Expand(candidates, i + 1)

\* getRotationPool(format, imageCount, categoryKeys)
GetRotationPool(format, imageCount, categoryKeys) ==
    LET candidates == {templatesByAirtableId[k] : k \in
                         {r \in DOMAIN templatesByAirtableId :
                            IsCandidate(templatesByAirtableId[r], format,
                                        imageCount, categoryKeys)}}
    IN  Expand(SortByRecordId(candidates), 1)

\* A rotation step that does not wrap (a faulty variant, used to test C1).
NextIndexNoWrap(lastIndex, length) == Min(lastIndex + 1, length - 1)

\* (formatState.lastIndex + 1) % pool.length
NextIndex(lastIndex, length) == JsRem(lastIndex + 1, length)

\* A selection whose updated state starts from the default instead of the
\* state that was read (a faulty variant, used to test C30).
SelectFromPoolResetsOther(pl, state, format) ==
    IF Len(pl) = 0 THEN [null |-> TRUE, selected |-> NoTemplate, updatedState |-> state]
    ELSE LET formatState == IF format = "png" THEN state.png ELSE state.mp4
             nextIndex   == JsRem(formatState.lastIndex + 1, Len(pl))
         IN  [null |-> FALSE,
              selected |-> pl[nextIndex + 1].template,
              updatedState |-> [[png |-> [lastIndex |-> 0], mp4 |-> [lastIndex |-> 0]]
                                   EXCEPT ![format] = [lastIndex |-> nextIndex]]]

\* selectFromPool(pool, state, format): null for an empty pool, else the
\* selected entry and the updated state.
SelectFromPool(pl, state, format) ==
    IF Len(pl) = 0 THEN [null |-> TRUE, selected |-> NoTemplate, updatedState |-> state]
    ELSE LET formatState == IF format = "png" THEN state.png ELSE state.mp4
             nextIndex   == NextIndex(formatState.lastIndex, Len(pl))
         IN  [null |-> FALSE,
              selected |-> pl[nextIndex + 1].template,
              updatedState |-> [state EXCEPT ![format] = [lastIndex |-> nextIndex]]]

(***************************************************************************)
(* SpecPool: getRotationPool over the catalogs a sync can produce          *)
(***************************************************************************)

\* A custom template arriving as template_json.
CustomTemplate == [id |-> "custom-wide", outputFormat |-> "png", imageCount |-> 3,
                   origin |-> "json", frames |-> 1]

NoJson == [kind |-> "empty", template |-> NoTemplate]

\* rotation_weight values of a record, in tenths: -1, 0.4, 3 and 15.
RecordWeights == {-10, 4, 30, 150}

RecordCategories == {{"roofing"}, {"plumbing", "before_after"}}

\* The rows the Templates table can hold for one record id.
RecordsFor(id) ==
    {[id |-> id, template_active |-> FALSE, builtin_id |-> "main-1-image",
      template_json |-> NoJson, rotation_weight |-> 10, category_keys |-> {}],
     [id |-> id, template_active |-> TRUE, builtin_id |-> "",
      template_json |-> [kind |-> "invalid", template |-> NoTemplate],
      rotation_weight |-> 10, category_keys |-> {}]}
    \cup
    {[id |-> id, template_active |-> TRUE, builtin_id |-> t[1], template_json |-> t[2],
      rotation_weight |-> w, category_keys |-> c] :
        t \in {<<"main-1-image", NoJson>>, <<"slideshow-base", NoJson>>,
               <<"", [kind |-> "valid", template |-> CustomTemplate]>>},
        w \in RecordWeights, c \in RecordCategories}

\* The record lists fetchAllTemplates can return: one row per record id, in
\* ascending or descending id order.
RecordLists ==
    {<<a, b, c>> : a \in RecordsFor(1), b \in RecordsFor(2), c \in RecordsFor(3)}
    \cup {<<c, b, a>> : a \in RecordsFor(1), b \in RecordsFor(2), c \in RecordsFor(3)}

\* The category filters a caller passes: none, an empty list, or keys.
CategoryFilters ==
    {[given |-> FALSE, keys |-> {}], [given |-> TRUE, keys |-> {}],
     [given |-> TRUE, keys |-> {"roofing"}], [given |-> TRUE, keys |-> {"before_after"}]}

PoolInit ==
    /\ \E records \in RecordLists :
          LET maps == InitRegistry(records)
          IN  /\ templatesByAirtableId = maps.byAirtableId
              /\ templatesByTemplateId = maps.byTemplateId
    /\ PoolIdle /\ HashIdle /\ RotIdle /\ SelIdle /\ CacheIdle /\ EngineIdle

\* One call getRotationPool(format, imageCount, categoryKeys).
BuildPool ==
    /\ ~poolArgs.called
    /\ \E format \in {"png", "mp4"}, imageCount \in 0..MaxImages,
          categoryKeys \in CategoryFilters :
          /\ poolArgs' = [called |-> TRUE, format |-> format, imageCount |-> imageCount,
                          filtered |-> categoryKeys.given,
                          categoryKeys |-> categoryKeys.keys]
          /\ pool' = GetRotationPool(format, imageCount, categoryKeys)
    /\ UNCHANGED <<hashVars, catVars, engineVars, rotVars, selVars, cacheVars>>

PoolNext == BuildPool

SpecPool == PoolInit /\ [][PoolNext]_vars

\* Number of positions of the pool that hold the entry of record id r.
Occurrences(r) == Cardinality({i \in 1..Len(pool) : pool[i].airtableRecordId = r})

\* The claim's eligibility of a catalog entry for the recorded call.
Eligible(meta) ==
    /\ meta.template.outputFormat = poolArgs.format
    /\ meta.template.imageCount <= poolArgs.imageCount
    /\ meta.rotationWeight > 0
    /\ (poolArgs.filtered /\ poolArgs.categoryKeys # {})
          => (\E k \in meta.categoryKeys : k \in poolArgs.categoryKeys)

\* The claim's number of copies for a weight in tenths:
\* min(max(1, round(weight)), 10), with round to nearest.
ClaimedCopies(weight) ==
    LET nearest == CHOOSE n \in 0..((weight \div 10) + 1) :
                       /\ 10 * n - 5 <= weight
                       /\ weight < 10 * n + 5
    IN  IF nearest < 1 THEN 1 ELSE IF nearest > 10 THEN 10 ELSE nearest

\* C2: the pool holds only catalog entries that are eligible for the call
\* (same output format, imageCount <= requested, weight > 0, category match
\* when a non-empty filter is given), each eligible entry exactly
\* min(max(1, round(weight)), 10) times, and none is missing.
C2_PoolContents ==
    poolArgs.called =>
        /\ \A i \in 1..Len(pool) :
              /\ pool[i].airtableRecordId \in DOMAIN templatesByAirtableId
              /\ pool[i] = templatesByAirtableId[pool[i].airtableRecordId]
              /\ Eligible(pool[i])
        /\ \A r \in DOMAIN templatesByAirtableId :
              Eligible(templatesByAirtableId[r]) =>
                  Occurrences(r) = ClaimedCopies(templatesByAirtableId[r].rotationWeight)

\* C2 witness: a filtered call whose pool holds a weight-3 entry three times
\* and a weight-15 entry ten times, while a catalog entry is left out.
C2_Witness ==
    /\ poolArgs.called /\ poolArgs.filtered /\ poolArgs.categoryKeys # {}
    /\ \E r \in DOMAIN templatesByAirtableId :
          templatesByAirtableId[r].rotationWeight = 30 /\ Occurrences(r) = 3
    /\ \E r \in DOMAIN templatesByAirtableId :
          templatesByAirtableId[r].rotationWeight = 150 /\ Occurrences(r) = 10
    /\ \E r \in DOMAIN templatesByAirtableId : Occurrences(r) = 0

(***************************************************************************)
(* SpecRotate: selectFromPool called again and again on one pool, each     *)
(* call fed the state the previous call returned                           *)
(***************************************************************************)

\* Most copies of one entry in a rotated pool.
MaxPoolCopies == 2

\* Largest lastIndex the persisted state starts with (it may exceed the pool:
\* the pool the index was written for may have been longer).
MaxLastIndex == 5

RotMeta(r, id) ==
    [template |-> BuiltinTemplate(id), airtableRecordId |-> r,
     rotationWeight |-> 10, categoryKeys |-> {}]

\* Pools as getRotationPool lays them out: the copies of the entry with the
\* smaller record id first.
RotPools ==
    {<<>>} \cup
    {Repeat(RotMeta(1, "main-1-image"), a) \o Repeat(RotMeta(2, "main-2-image"), b) :
        a \in 1..MaxPoolCopies, b \in 0..MaxPoolCopies}

RotInit ==
    /\ pool \in RotPools
    /\ poolArgs = [called |-> FALSE, format |-> "png", imageCount |-> 0,
                   filtered |-> FALSE, categoryKeys |-> {}]
    /\ rotState \in [png : [lastIndex : 0..MaxLastIndex], mp4 : [lastIndex : 0..MaxLastIndex]]
    /\ rotFormat \in {"png", "mp4"}
    /\ picks = <<>>
    /\ templatesByAirtableId = EmptyMap
    /\ templatesByTemplateId = EmptyMap
    /\ HashIdle /\ SelIdle /\ CacheIdle /\ EngineIdle

\* One call selectFromPool(pool, rotState, rotFormat); its updated state is
\* what the next call is given.
SelectNext ==
    /\ Len(picks) <= Len(pool)
    /\ LET r == SelectFromPool(pool, rotState, rotFormat)
       IN  /\ picks' = Append(picks,
                          [null |-> r.null,
                           before |-> rotState[rotFormat].lastIndex,
                           index |-> r.updatedState[rotFormat].lastIndex,
                           selected |-> r.selected])
           /\ rotState' = r.updatedState
    /\ UNCHANGED <<rotFormat, pool, poolArgs, hashVars, catVars, engineVars,
                   selVars, cacheVars>>

RotNext == SelectNext

SpecRotate == RotInit /\ [][RotNext]_vars

\* C1: each call on a non-empty pool moves the chosen kind's lastIndex to
\* (lastIndex + 1) mod pool.length and returns the entry at that index; the
\* first pool.length consecutive calls return pairwise different indexes, so
\* every index exactly once; a call on an empty pool returns null.
C1_RoundRobin ==
    /\ \A i \in 1..Len(picks) :
          IF Len(pool) = 0 THEN picks[i].null
          ELSE /\ ~picks[i].null
               /\ picks[i].index = (picks[i].before + 1) % Len(pool)
               /\ picks[i].selected = pool[picks[i].index + 1].template
    /\ \A i, j \in 1..Min(Len(picks), Len(pool)) :
          i # j => picks[i].index # picks[j].index
    /\ (Len(pool) > 0 /\ Len(picks) >= Len(pool)) =>
          {picks[i].index : i \in 1..Len(pool)} = 0..(Len(pool) - 1)
    /\ (Len(pool) > 0 /\ Len(picks) > Len(pool)) =>
          picks[Len(pool) + 1].index = picks[1].index

\* C1 witness: a pool of at least three entries rotated once around from a
\* stored index beyond the pool, the next call repeating the first index.
C1_Witness ==
    /\ Len(pool) >= 3
    /\ Len(picks) = Len(pool) + 1
    /\ picks[1].before >= Len(pool)
    /\ picks[Len(pool) + 1].index = picks[1].index

(***************************************************************************)
(* Rotation-state store (services/airtable.ts) and autoSelectTemplate      *)
(***************************************************************************)

\* A serialisation that writes each kind's index under the other kind's key
\* (a faulty variant, used to test C8).
StringifySwapped(state) ==
    [present |-> TRUE, text |-> <<"png", state.mp4.lastIndex, "mp4", state.png.lastIndex>>]

\* JSON.stringify(state) of a RotationState, as stored in the company record.
Stringify(state) ==
    [present |-> TRUE, text |-> <<"png", state.png.lastIndex, "mp4", state.mp4.lastIndex>>]

\* JSON.parse(raw) as RotationState
Parse(text) == [png |-> [lastIndex |-> text[2]], mp4 |-> [lastIndex |-> text[4]]]

\* A read that, when the fetch fails, still hands out what the record holds
\* (a faulty variant, used to test C4).
GetCompanyRotationStateStale(raw, fetchOk) ==
    IF ~raw.present THEN DefaultRotationState ELSE Parse(raw.text)

\* getCompanyRotationState: the default when the fetch throws or the field is
\* unset, else the parsed field.
GetCompanyRotationState(raw, fetchOk) ==
    IF ~fetchOk THEN DefaultRotationState
    ELSE IF ~raw.present THEN DefaultRotationState
    ELSE Parse(raw.text)

\* The short-circuit tests in the opposite order (a faulty variant, used to
\* test C3).
ShortCircuitSlideshowFirst(postType, categoryKeys, preferMp4, imageCount) ==
    IF postType = "slideshow" \/ (preferMp4 /\ imageCount >= 3) THEN "slideshow"
    ELSE IF postType = "before_after"
            \/ (categoryKeys.given /\ "before_after" \in categoryKeys.keys)
         THEN "before_after"
    ELSE "none"

\* The slideshow test without its mp4-preference clause (a variant used to
\* test C5).
ShortCircuitPostTypeOnly(postType, categoryKeys, preferMp4, imageCount) ==
    IF postType = "before_after"
       \/ (categoryKeys.given /\ "before_after" \in categoryKeys.keys)
    THEN "before_after"
    ELSE IF postType = "slideshow" THEN "slideshow"
    ELSE "none"

\* Steps 1 and 2 of autoSelectTemplate: which fixed template, if any, the
\* call returns at once.
ShortCircuit(postType, categoryKeys, preferMp4, imageCount) ==
    IF postType = "before_after"
       \/ (categoryKeys.given /\ "before_after" \in categoryKeys.keys)
    THEN "before_after"
    ELSE IF postType = "slideshow" \/ (preferMp4 /\ imageCount >= 3) THEN "slideshow"
    ELSE "none"

\* const format = preferMp4 && imageCount >= 3 ? 'mp4' : 'png'
TargetFormat(preferMp4, imageCount) ==
    IF preferMp4 /\ imageCount >= 3 THEN "mp4" ELSE "png"

Other(p) == CHOOSE q \in Procs : q # p

\* The other invocation's record when p starts a call: a returned hash
\* fallback without company counts the selections started since it returned
\* (at most 2 are told apart).
NotePeerStart(c) ==
    IF c.pc = "done" /\ c.path = "hash" /\ c.companyId = ""
    THEN [c EXCEPT !.peerStarts = Min(2, c.peerStarts + 1)]
    ELSE c

\* autoSelectTemplate(imageCount, recordId, categoryKeys, preferMp4, postType,
\* companyId) up to its first await: the short-circuits, the pool, and either
\* the hash fallback or the pending read of the rotation state.
Call(p, imageCount, recordId, categoryKeys, preferMp4, postType, companyId) ==
    /\ calls[p].pc = "idle"
    /\ LET sc     == ShortCircuit(postType, categoryKeys, preferMp4, imageCount)
           format == TargetFormat(preferMp4, imageCount)
           pl     == IF sc = "none" /\ companyId # ""
                     THEN GetRotationPool(format, imageCount, categoryKeys)
                     ELSE <<>>
           q      == Other(p)
           base   == [IdleCall EXCEPT
                        !.imageCount = imageCount, !.recordId = recordId,
                        !.categoryKeys = categoryKeys, !.preferMp4 = preferMp4,
                        !.postType = postType, !.companyId = companyId]
           mine   ==
             IF sc = "before_after"
             THEN [base EXCEPT !.pc = "done", !.path = "before_after",
                               !.result = GetTemplate("before-after")]
             ELSE IF sc = "slideshow"
             THEN [base EXCEPT !.pc = "done", !.path = "slideshow",
                               !.result = GetTemplate("slideshow-base")]
             ELSE IF companyId # "" /\ Len(pl) > 0
             THEN [base EXCEPT !.pc = "reading", !.format = format, !.pool = pl]
             ELSE [base EXCEPT !.pc = "done", !.path = "hash", !.format = format,
                               !.pool = pl,
                               !.result = HashBasedSelect(imageCount, recordId)]
       IN  calls' = [calls EXCEPT ![p] = mine, ![q] = NotePeerStart(calls[q])]
    /\ UNCHANGED <<store, hashVars, catVars, engineVars, poolVars, rotVars, cacheVars>>

\* The await of getCompanyRotationState settles (the fetch worked or threw);
\* selectFromPool runs and the PATCH of updateCompanyRotationState is sent.
ReadState(p, fetchOk) ==
    /\ calls[p].pc = "reading"
    /\ LET c      == calls[p]
           state  == GetCompanyRotationState(store[c.companyId], fetchOk)
           result == SelectFromPool(c.pool, state, c.format)
       IN  calls' = [calls EXCEPT ![p] =
                       IF result.null
                       THEN [c EXCEPT !.pc = "done", !.path = "hash", !.state = state,
                                      !.readFailed = ~fetchOk,
                                      !.result = HashBasedSelect(c.imageCount, c.recordId)]
                       ELSE [c EXCEPT !.pc = "writing", !.state = state,
                                      !.readFailed = ~fetchOk,
                                      !.updatedState = result.updatedState,
                                      !.selected = result.selected]]
    /\ UNCHANGED <<store, hashVars, catVars, engineVars, poolVars, rotVars, cacheVars>>

\* The PATCH lands (or fails, which .catch only logs) and the call returns
\* the selected template.
WriteState(p, patchOk) ==
    /\ calls[p].pc = "writing"
    /\ LET c == calls[p]
       IN  /\ store' = IF patchOk
                       THEN [store EXCEPT ![c.companyId] = Stringify(c.updatedState)]
                       ELSE store
           /\ calls' = [calls EXCEPT ![p] =
                          [c EXCEPT !.pc = "done", !.path = "rotation",
                                    !.writeFailed = ~patchOk, !.result = c.selected]]
    /\ UNCHANGED <<hashVars, catVars, engineVars, poolVars, rotVars, cacheVars>>

\* The caller has taken the returned template; the invocation slot is free.
Return(p) ==
    /\ calls[p].pc = "done"
    /\ calls' = [calls EXCEPT ![p] = IdleCall]
    /\ UNCHANGED <<store, hashVars, catVars, engineVars, poolVars, rotVars, cacheVars>>

(***************************************************************************)
(* SpecSelect: concurrent autoSelectTemplate calls                         *)
(***************************************************************************)

\* Largest lastIndex a company record holds when the engine starts.
MaxStoredIndex == 2

\* A synced catalog with a three-entry still pool (a weight-2 entry and a
\* weight-1 entry) and a video entry, and a sync that found no record, which
\* leaves the built-in fallback and no rotation pool.
SelRecordLists ==
    {<<[id |-> 2, template_active |-> TRUE, builtin_id |-> "",
        template_json |-> [kind |-> "valid", template |-> CustomTemplate],
        rotation_weight |-> 10, category_keys |-> {"plumbing"}],
       [id |-> 1, template_active |-> TRUE, builtin_id |-> "main-1-image",
        template_json |-> NoJson, rotation_weight |-> 20, category_keys |-> {"roofing"}],
       [id |-> 3, template_active |-> TRUE, builtin_id |-> "slideshow-base",
        template_json |-> NoJson, rotation_weight |-> 10, category_keys |-> {"roofing"}]>>,
     <<>>}

SelImageCounts == 2..3
SelJobIds == {<<99>>, <<114, 101, 99>>}
SelCategoryFilters ==
    {[given |-> FALSE, keys |-> {}], [given |-> TRUE, keys |-> {"roofing"}],
     [given |-> TRUE, keys |-> {"before_after"}]}
SelPostTypes == {Undefined, "before_after", "slideshow"}
SelCompanyIds == {""} \cup Companies

\* What the company records hold at start: nothing, or a state written by an
\* earlier selection.
SelStoredStates ==
    {NoRaw} \cup
    {Stringify([png |-> [lastIndex |-> i], mp4 |-> [lastIndex |-> 1]]) :
        i \in 0..MaxStoredIndex}

SelInit ==
    /\ \E records \in SelRecordLists :
          LET maps == InitRegistry(records)
          IN  /\ templatesByAirtableId = maps.byAirtableId
              /\ templatesByTemplateId = maps.byTemplateId
    /\ store \in [Companies -> SelStoredStates]
    /\ calls = [p \in Procs |-> IdleCall]
    /\ HashIdle /\ PoolIdle /\ RotIdle /\ CacheIdle /\ EngineIdle

SelNext ==
    \/ \E p \in Procs, imageCount \in SelImageCounts, recordId \in SelJobIds,
          categoryKeys \in SelCategoryFilters, preferMp4 \in BOOLEAN,
          postType \in SelPostTypes, companyId \in SelCompanyIds :
          Call(p, imageCount, recordId, categoryKeys, preferMp4, postType, companyId)
    \/ \E p \in Procs, fetchOk \in BOOLEAN : ReadState(p, fetchOk)
    \/ \E p \in Procs, patchOk \in BOOLEAN : WriteState(p, patchOk)
    \/ \E p \in Procs : Return(p)

SpecSelect == SelInit /\ [][SelNext]_vars

\* The claim's tests on a call's arguments.
WantsBeforeAfter(c) ==
    c.postType = "before_after"
    \/ (c.categoryKeys.given /\ "before_after" \in c.categoryKeys.keys)

WantsSlideshow(c) ==
    c.postType = "slideshow" \/ (c.preferMp4 /\ c.imageCount >= 3)

\* C3: a before_after post type or category returns the before-after
\* template even when the slideshow conditions hold as well; otherwise a
\* slideshow post type, or preferMp4 with at least 3 images, returns the
\* slideshow template; only otherwise does the call rotate or hash.
C3_DecisionOrder ==
    \A p \in Procs :
        LET c == calls[p]
        IN  c.pc # "idle" =>
              IF WantsBeforeAfter(c)
              THEN c.pc = "done" /\ c.path = "before_after"
                   /\ c.result.id = "before-after"
              ELSE IF WantsSlideshow(c)
              THEN c.pc = "done" /\ c.path = "slideshow"
                   /\ c.result.id = "slideshow-base"
              ELSE /\ c.path \in {"none", "rotation", "hash"}
                   /\ c.pc = "done" => c.path \in {"rotation", "hash"}

\* C3 witness: a returned call whose category asked for before/after while
\* its post type and its video preference asked for the slideshow.
C3_Witness ==
    \E p \in Procs :
        /\ calls[p].pc = "done"
        /\ calls[p].postType = "slideshow"
        /\ calls[p].preferMp4 /\ calls[p].imageCount >= 3
        /\ "before_after" \in calls[p].categoryKeys.keys
        /\ calls[p].result.id = "before-after"

C5_BothKindsRotate ==
    \A p \in Procs :
        LET c == calls[p]
        IN  /\ c.path = "rotation" => c.format = TargetFormat(c.preferMp4, c.imageCount)
            /\ (/\ c.pc = "done" /\ c.companyId # ""
                /\ ~WantsBeforeAfter(c) /\ c.postType # "slideshow"
                /\ c.preferMp4 /\ c.imageCount >= 3
                /\ GetRotationPool("mp4", c.imageCount, c.categoryKeys) # <<>>)
                  => (c.path = "rotation" /\ c.format = "mp4")

\* C5 (amended): every call that reaches the rotation step rotates the still
\* kind: its pool is the still pool, it advances the still lastIndex by one
\* modulo the pool length and leaves the video lastIndex as read. The video
\* kind is never rotated, because preferMp4 with imageCount >= 3 has already
\* returned the slideshow template.
C5_OnlyStillRotates ==
    \A p \in Procs :
        LET c == calls[p]
        IN  (c.pc \in {"reading", "writing"} \/ c.path = "rotation") =>
              /\ c.format = "png"
              /\ ~(c.preferMp4 /\ c.imageCount >= 3)
              /\ c.pool = GetRotationPool("png", c.imageCount, c.categoryKeys)
              /\ c.pc # "reading" =>
                    /\ c.updatedState.mp4 = c.state.mp4
                    /\ c.updatedState.png.lastIndex =
                          (c.state.png.lastIndex + 1) % Len(c.pool)

\* C5 witness: a returned rotation of the still kind for a job that prefers
\* video, the record's video index untouched at a non-default value.
C5_Witness ==
    \E p \in Procs :
        /\ calls[p].pc = "done" /\ calls[p].path = "rotation"
        /\ calls[p].preferMp4 /\ ~calls[p].writeFailed
        /\ calls[p].updatedState.mp4.lastIndex = 1
        /\ store[calls[p].companyId] = Stringify(calls[p].updatedState)

RaceCompany == CHOOSE c \in Companies : TRUE

\* rotState keeps the rotation state the company record held before the
\* two calls.
RaceInit ==
    /\ \E records \in SelRecordLists :
          LET maps == InitRegistry(records)
          IN  /\ templatesByAirtableId = maps.byAirtableId
              /\ templatesByTemplateId = maps.byTemplateId
    /\ store \in [Companies -> SelStoredStates]
    /\ calls = [p \in Procs |-> IdleCall]
    /\ rotState = GetCompanyRotationState(store[RaceCompany], TRUE)
    /\ rotFormat = "png"
    /\ picks = <<>>
    /\ HashIdle /\ PoolIdle /\ CacheIdle /\ EngineIdle

RaceNext ==
    \/ \E p \in Procs, imageCount \in SelImageCounts, recordId \in SelJobIds,
          categoryKeys \in {k \in SelCategoryFilters : "before_after" \notin k.keys},
          preferMp4 \in BOOLEAN :
          Call(p, imageCount, recordId, categoryKeys, preferMp4, Undefined, RaceCompany)
    \/ \E p \in Procs, fetchOk \in BOOLEAN : ReadState(p, fetchOk)
    \/ \E p \in Procs, patchOk \in BOOLEAN : WriteState(p, patchOk)

SpecRace == RaceInit /\ [][RaceNext]_vars

\* Both calls rotated the same kind over the same pool for the same company
\* and all their reads and writes of the state went through.
RacedPair ==
    /\ \A p \in Procs :
          /\ calls[p].pc = "done" /\ calls[p].path = "rotation"
          /\ calls[p].companyId = RaceCompany
          /\ ~calls[p].readFailed /\ ~calls[p].writeFailed
    /\ calls[1].format = calls[2].format
    /\ calls[1].pool = calls[2].pool

MAX_CACHE_SIZE == 100

CacheHas(cache, url) == \E i \in 1..Len(cache) : cache[i].url = url

\* imageCache.get(url): the cached Image, or NoImage for undefined.
CacheGet(cache, url) ==
    IF CacheHas(cache, url)
    THEN cache[CHOOSE i \in 1..Len(cache) : cache[i].url = url].img
    ELSE NoImage

\* imageCache.set(url, img): a key the Map holds keeps its place and gets
\* the new value; a new key goes last.
CacheSet(cache, url, img) ==
    IF CacheHas(cache, url)
    THEN [i \in 1..Len(cache) |->
            IF cache[i].url = url THEN [url |-> url, img |-> img] ELSE cache[i]]
    ELSE Append(cache, [url |-> url, img |-> img])

\* An eviction that deletes the newest key (a faulty variant, used to test C9).
EvictNewest(cache) ==
    IF Len(cache) >= MAX_CACHE_SIZE THEN SubSeq(cache, 1, Len(cache) - 1) ELSE cache

\* if (imageCache.size >= MAX_CACHE_SIZE) delete the first key
Evict(cache) ==
    IF Len(cache) >= MAX_CACHE_SIZE THEN Tail(cache) ELSE cache

\* The tail of loadRemoteImage after the decode: evict, then set.
CacheInsert(cache, url, img) == CacheSet(Evict(cache), url, img)

\* Most fetches issued in one behaviour.
MaxFetches == 3

\* loadRemoteImage(url) up to its first await, as the invocation it leaves:
\* a cache hit returns the cached Image, a miss issues fetch number ticket.
Started(cache, url, ticket) ==
    LET cached == CacheGet(cache, url)
    IN  IF cached # NoImage
        THEN [pc |-> "done", url |-> url, img |-> cached, outcome |-> "hit", ticket |-> 0]
        ELSE [pc |-> "fetching", url |-> url, img |-> NoImage, outcome |-> "none",
              ticket |-> ticket]

\* A call of loadRemoteImage(url) by loader p.
Load(p, url) ==
    /\ loads[p].pc = "idle"
    /\ LET ld == Started(imageCache, url, fetches + 1)
       IN  /\ ld.outcome # "hit" => fetches < MaxFetches
           /\ loads' = [loads EXCEPT ![p] = ld]
           /\ fetches' = IF ld.outcome = "hit" THEN fetches ELSE fetches + 1
    /\ UNCHANGED <<imageCache, lastEvicted, hashVars, catVars, engineVars,
                   poolVars, rotVars, selVars>>

\* The fetch settles: a response that is ok (its bytes are then read and, for
\* WebP, converted), or a rejection / a status that is not ok, which throws.
FetchSettles(p, ok) ==
    /\ loads[p].pc = "fetching"
    /\ loads' = [loads EXCEPT ![p] =
                   IF ok THEN [@ EXCEPT !.pc = "decoding"]
                   ELSE [@ EXCEPT !.pc = "done", !.outcome = "error"]]
    /\ UNCHANGED <<imageCache, fetches, lastEvicted, hashVars, catVars,
                   engineVars, poolVars,
                   rotVars, selVars>>

\* loadImage(buffer) settles: on success the Image (a new object, told apart
\* by the number of the fetch it came from) is put into the cache and returned.
DecodeSettles(p, ok) ==
    /\ loads[p].pc = "decoding"
    /\ IF ok
       THEN LET img == [url |-> loads[p].url, serial |-> loads[p].ticket]
            IN  /\ imageCache' = CacheInsert(imageCache, loads[p].url, img)
                /\ lastEvicted' =
                     [inserted |-> loads[p].url,
                      evicted |-> IF Len(imageCache) >= MAX_CACHE_SIZE
                                  THEN <<imageCache[1].url>> ELSE <<>>,
                      sizeBefore |-> Len(imageCache),
                      wasCached |-> CacheHas(imageCache, loads[p].url)]
                /\ loads' = [loads EXCEPT ![p] =
                               [@ EXCEPT !.pc = "done", !.img = img, !.outcome = "loaded"]]
       ELSE /\ loads' = [loads EXCEPT ![p] = [@ EXCEPT !.pc = "done", !.outcome = "error"]]
            /\ UNCHANGED <<imageCache, lastEvicted>>
    /\ UNCHANGED <<fetches, hashVars, catVars, engineVars, poolVars, rotVars, selVars>>

\* The caller has taken the Image or the error.
LoadReturn(p) ==
    /\ loads[p].pc = "done"
    /\ loads' = [loads EXCEPT ![p] = IdleLoad]
    /\ UNCHANGED <<imageCache, fetches, lastEvicted, hashVars, catVars,
                   engineVars, poolVars,
                   rotVars, selVars>>

(***************************************************************************)
(* SpecCache: concurrent loadRemoteImage calls on a nearly full cache      *)
(***************************************************************************)

\* How far below MAX_CACHE_SIZE the cache may start.
MaxFree == 1

\* URLs that are not cached at the start.
MaxNewUrls == 2

\* The cache after the URLs 1..n were loaded one after the other.
Filled(n) == [i \in 1..n |-> [url |-> i, img |-> [url |-> i, serial |-> 0]]]

\* URLs the callers ask for: the two oldest cached ones, the newest cached
\* one and the new ones.
LoadUrls ==
    {1, 2, MAX_CACHE_SIZE - MaxFree}
        \cup ((MAX_CACHE_SIZE + 1)..(MAX_CACHE_SIZE + MaxNewUrls))

CacheInit ==
    /\ \E n \in (MAX_CACHE_SIZE - MaxFree)..MAX_CACHE_SIZE : imageCache = Filled(n)
    /\ loads = [p \in Loaders |-> IdleLoad]
    /\ fetches = 0
    /\ lastEvicted = NoEviction
    /\ templatesByAirtableId = EmptyMap
    /\ templatesByTemplateId = EmptyMap
    /\ HashIdle /\ PoolIdle /\ RotIdle /\ SelIdle /\ EngineIdle

CacheNext ==
    \/ \E p \in CacheLoaders, url \in LoadUrls : Load(p, url)
    \/ \E p \in CacheLoaders, ok \in BOOLEAN : FetchSettles(p, ok)
    \/ \E p \in CacheLoaders, ok \in BOOLEAN : DecodeSettles(p, ok)
    \/ \E p \in CacheLoaders : LoadReturn(p)

SpecCache == CacheInit /\ [][CacheNext]_vars

\* Loader p completes a load by inserting its Image in this step.
Inserts(p) == loads[p].pc = "decoding" /\ loads'[p].outcome = "loaded"

C10_NoNeedlessEviction ==
    /\ \A p \in Loaders :
          loads[p].outcome = "loaded" => loads[p].img.url = loads[p].url
    /\ Len(imageCache) <= MAX_CACHE_SIZE
    /\ lastEvicted.evicted # <<>> =>
          (~lastEvicted.wasCached /\ lastEvicted.sizeBefore = MAX_CACHE_SIZE)

(***************************************************************************)
(* loadAllImages (engine/asset-loader.ts)                                  *)
(***************************************************************************)

\* The invocation slots of the URLs at positions 1..n of a list.
Slots(n) == 1..n

\* A loadRemoteImage invocation that ended with an Image.
Fulfilled(ld) == ld.pc = "done" /\ ld.outcome \in {"hit", "loaded"}

\* urls.map(...): loadRemoteImage is called for every URL of the list, in
\* list order, each call running to its first await before the next starts.
RECURSIVE StartAll(_, _, _, _, _)
StartAll(cache, urls, i, lds, n) ==
    IF i > Len(urls) THEN [loads |-> lds, fetches |-> n]
    ELSE LET ld == Started(cache, urls[i], n + 1)
         IN  StartAll(cache, urls, i + 1, [lds EXCEPT ![i] = ld],
                      IF ld.outcome = "hit" THEN n ELSE n + 1)

\* The loop over the settled results: results.set(url, img) for every
\* fulfilled one, in list order.
RECURSIVE Collect(_, _, _, _)
Collect(lds, urls, i, results) ==
    IF i > Len(urls) THEN results
    ELSE Collect(lds, urls, i + 1,
                 IF Fulfilled(lds[i]) THEN CacheSet(results, urls[i], lds[i].img)
                 ELSE results)

\* A batch that awaits Promise.all: the first rejection rejects the batch
\* (a faulty variant, used to test C11).
SettleAllFailFast(lds, urls) ==
    IF \E i \in Slots(Len(urls)) : ~Fulfilled(lds[i])
    THEN [rejected |-> TRUE, results |-> <<>>]
    ELSE [rejected |-> FALSE, results |-> Collect(lds, urls, 1, <<>>)]

\* What loadAllImages returns once Promise.allSettled has resumed it.
SettleAll(lds, urls) ==
    [rejected |-> FALSE, results |-> Collect(lds, urls, 1, <<>>)]

\* loadAllImages(urls) up to its await.
LoadAllImages(urls) ==
    /\ batch.pc = "idle"
    /\ \A p \in Loaders : loads[p].pc = "idle"
    /\ LET st == StartAll(imageCache, urls, 1, loads, fetches)
       IN  /\ loads' = st.loads
           /\ fetches' = st.fetches
    /\ batch' = [pc |-> "waiting", urls |-> urls, results |-> <<>>, rejected |-> FALSE]
    /\ UNCHANGED <<imageCache, lastEvicted, hashVars, catVars, poolVars, rotVars, selVars,
                   mp4Vars, paintVars,
                   jobVars,
                   syncVars, textVars>>

\* Every promise of the batch has settled: loadAllImages resumes and returns.
BatchSettles ==
    /\ batch.pc = "waiting"
    /\ \A i \in Slots(Len(batch.urls)) : loads[i].pc = "done"
    /\ LET r == SettleAll(loads, batch.urls)
       IN  batch' = [batch EXCEPT !.pc = "done", !.results = r.results,
                                  !.rejected = r.rejected]
    /\ UNCHANGED <<cacheVars, hashVars, catVars, poolVars, rotVars, selVars, mp4Vars, paintVars,
                   jobVars,
                   syncVars, textVars>>

(***************************************************************************)
(* SpecBatch: one loadAllImages call over cached and uncached URLs         *)
(***************************************************************************)

\* Longest URL list of a batch.
MaxBatch == 3

\* URLs of a batch: URL 1 may be cached at the start, the others are not.
BatchUrls == {1, 2, 3}

RECURSIVE SeqsUpTo(_, _)
SeqsUpTo(S, n) ==
    IF n = 0 THEN {<<>>}
    ELSE LET shorter == SeqsUpTo(S, n - 1)
         IN  shorter \cup {Append(q, x) : q \in {r \in shorter : Len(r) = n - 1}, x \in S}

BatchInit ==
    /\ \E n \in 0..1 : imageCache = Filled(n)
    /\ loads = [p \in Loaders |-> IdleLoad]
    /\ fetches = 0
    /\ lastEvicted = NoEviction
    /\ batch = IdleBatch
    /\ Mp4Idle
    /\ paint = IdlePaint
    /\ job = IdleJob
    /\ registry = IdleRegistry
    /\ wrapped = IdleWrap
    /\ resolved = IdleResolve
    /\ templatesByAirtableId = EmptyMap
    /\ templatesByTemplateId = EmptyMap
    /\ HashIdle /\ PoolIdle /\ RotIdle /\ SelIdle

BatchNext ==
    \/ \E urls \in SeqsUpTo(BatchUrls, MaxBatch) : LoadAllImages(urls)
    \/ \E p \in Loaders, ok \in BOOLEAN : FetchSettles(p, ok)
    \/ \E p \in Loaders, ok \in BOOLEAN : DecodeSettles(p, ok)
    \/ BatchSettles

SpecBatch == BatchInit /\ [][BatchNext]_vars

\* C11: loadAllImages never rejects; while it waits every URL of the list
\* has its own load in progress or settled, whatever became of the others;
\* and when it returns every load has run to its end and the map holds
\* exactly the URLs of which a load succeeded, each with an Image a
\* successful load of that URL produced.
C11_BatchNeverRejects ==
    /\ ~batch.rejected
    /\ batch.pc # "idle" =>
          \A i \in Slots(Len(batch.urls)) :
              loads[i].pc # "idle" /\ loads[i].url = batch.urls[i]
    /\ batch.pc = "done" =>
          /\ \A i \in Slots(Len(batch.urls)) : loads[i].pc = "done"
          /\ {batch.results[k].url : k \in 1..Len(batch.results)} =
                {batch.urls[i] : i \in {j \in Slots(Len(batch.urls)) : Fulfilled(loads[j])}}
          /\ \A k \in 1..Len(batch.results) :
                /\ batch.results[k].img.url = batch.results[k].url
                /\ \E i \in Slots(Len(batch.urls)) :
                      /\ Fulfilled(loads[i])
                      /\ batch.urls[i] = batch.results[k].url
                      /\ loads[i].img = batch.results[k].img
          /\ \A k, l \in 1..Len(batch.results) :
                batch.results[k].url = batch.results[l].url => k = l

\* C11 witness: a batch of three URLs returned after two of its loads failed
\* and one succeeded; the map holds the one URL.
C11_Witness ==
    /\ batch.pc = "done"
    /\ Len(batch.urls) = 3
    /\ \E i, j, k \in Slots(3) :
          /\ loads[i].outcome = "error" /\ loads[i].img = NoImage
          /\ loads[j].outcome = "error" /\ j # i
          /\ loads[k].outcome = "loaded"
          /\ Len(batch.results) = 1
          /\ batch.results[1] = [url |-> batch.urls[k], img |-> loads[k].img]

(***************************************************************************)
(* renderMp4 and buildMp4WithXfade (engine/mp4-renderer.ts)                *)
(*                                                                         *)
(* Durations are kept in milliseconds: the code divides them by 1000 and   *)
(* subtracts and adds the quotients, which these integers do exactly.      *)
(***************************************************************************)

\* if (frameCount < 1): a guard that lets a one-frame template through (a
\* faulty variant, used to test C13).
TooFewFramesOffByOne(frameCount) == frameCount < 1

\* if (frameCount < 2)
TooFewFrames(frameCount) == frameCount < 2

\* (f.durationMs || 3000): an unset or zero duration gives 3000.
HoldMs(f) == IF f.durationMs = 0 THEN 3000 ELSE f.durationMs

\* template.frames.map((f) => (f.durationMs || 3000) / 1000)
FrameDurations(frames) == [i \in 1..Len(frames) |-> HoldMs(frames[i])]

\* (template.transition?.durationMs || 800)
TransitionMs(transition) ==
    IF transition.durationMs = 0 THEN 800 ELSE transition.durationMs

\* mapTransitionType(template.transition?.type || 'fade')
MapTransitionType(type) ==
    CASE type = "fade" -> "fade"
      [] type = "crossfade" -> "fade"
      [] type = "slide_left" -> "slideleft"
      [] type = "slide_right" -> "slideright"
      [] type = "zoom" -> "smoothup"
      [] OTHER -> "fade"

\* The labels of the filter graph: [i:v], [vi] and [v].
FrameLabel(i) == [kind |-> "frame", n |-> i]
StageLabel(i) == [kind |-> "stage", n |-> i]
FinalLabel    == [kind |-> "final", n |-> 0]

\* One xfade filter, by the parts its text is put together from.
Xfade(inputA, inputB, type, duration, offset, format, output) ==
    [inputA |-> inputA, inputB |-> inputB, transition |-> type,
     duration |-> duration, offset |-> offset, format |-> format, output |-> output]

\* An offset that forgets that a transition eats into the hold before it (a
\* faulty variant, used to test C16).
NextOffsetNoOverlap(i, cumulativeOffset, frameDurations, transitionDuration) ==
    IF i = 0 THEN frameDurations[1] - transitionDuration
    ELSE cumulativeOffset + frameDurations[i + 1]

\* cumulativeOffset after stage i (0-based) has taken its share.
NextOffset(i, cumulativeOffset, frameDurations, transitionDuration) ==
    IF i = 0 THEN frameDurations[1] - transitionDuration
    ELSE cumulativeOffset + frameDurations[i + 1] - transitionDuration

\* The general chain: for (let i = 0; i < n - 1; i++) { ... }
RECURSIVE Chain(_, _, _, _, _, _)
Chain(i, n, cumulativeOffset, filterParts, frameDurations, tr) ==
    IF i >= n - 1 THEN filterParts
    ELSE LET inputA == IF i = 0 THEN FrameLabel(0) ELSE StageLabel(i)
             inputB == FrameLabel(i + 1)
             outputLabel == IF i = n - 2 THEN FinalLabel ELSE StageLabel(i + 1)
             offset == NextOffset(i, cumulativeOffset, frameDurations, tr.duration)
         IN  Chain(i + 1, n, offset,
                   Append(filterParts,
                          Xfade(inputA, inputB, tr.type, tr.duration, offset,
                                i = n - 2, outputLabel)),
                   frameDurations, tr)

\* filterParts of buildMp4WithXfade: the n === 2 branch, or the chain.
BuildFilter(frameDurations, tr) ==
    LET n == Len(frameDurations)
    IN  IF n = 2
        THEN << Xfade(FrameLabel(0), FrameLabel(1), tr.type, tr.duration,
                      frameDurations[1] - tr.duration, TRUE, FinalLabel) >>
        ELSE Chain(0, n, 0, <<>>, frameDurations, tr)

\* cmd.input(framePaths[i]).inputOptions(['-loop', '1', '-t', duration, ...])
EncoderInputs(dir, frameDurations) ==
    [i \in 1..Len(frameDurations) |->
        [dir |-> dir, frame |-> i - 1, t |-> frameDurations[i]]]

\* The files of a temporary directory.
FrameFile(i) == [kind |-> "frame", i |-> i]
OutputFile   == [kind |-> "output", i |-> 0]

\* A cleanup that removes nothing (a faulty variant, used to test C14).
RmSyncKeep(dir) == dir

\* rmSync(tmpDir, { recursive: true, force: true })
RmSync(dir) == [exists |-> FALSE, files |-> {}]

\* Where the synchronous part of renderMp4 may fail: nowhere, in mkdtempSync,
\* in renderPng of frame i or in writeFileSync of frame i.
NoFault == [at |-> "none", i |-> 0]
Faults(frameCount) ==
    {NoFault, [at |-> "mkdtemp", i |-> 0]}
        \cup {[at |-> a, i |-> k] : a \in {"renderPng", "write"}, k \in 0..(frameCount - 1)}

\* The frame files in the directory when the loop over the frames ends or
\* throws: a failed write may leave its file behind.
FilesWritten(frameCount, fault) ==
    CASE fault.at = "renderPng" -> {FrameFile(j) : j \in 0..(fault.i - 1)}
      [] fault.at = "write"     -> {FrameFile(j) : j \in 0..fault.i}
      [] OTHER                  -> {FrameFile(j) : j \in 0..(frameCount - 1)}

\* The number of renderPng calls the loop has made.
RenderCalls(frameCount, fault) ==
    IF fault.at \in {"renderPng", "write"} THEN fault.i + 1 ELSE frameCount

\* Most renderMp4 calls in one behaviour.
MaxRenders == 2

\* renderMp4(ctx) up to its first await: the frame-count guard, mkdtempSync,
\* the loop that renders and writes the frames, and the start of FFmpeg;
\* an error thrown inside the try block runs the finally block and rejects.
RenderMp4Call(frames, transition, fault) ==
    /\ mp4.pc = "idle"
    /\ LET frameCount == Len(frames)
           call == [IdleMp4 EXCEPT !.frames = frames, !.transition = transition]
           dir == Len(tmpDirs) + 1
           frameDurations == FrameDurations(frames)
           tr == [type |-> MapTransitionType(transition.type),
                  duration |-> TransitionMs(transition)]
       IN  IF TooFewFrames(frameCount)
           THEN /\ mp4' = [call EXCEPT !.pc = "settled", !.outcome = "rejected",
                                        !.error = "frames"]
                /\ UNCHANGED <<tmpDirs, encoder>>
           ELSE IF fault.at = "mkdtemp"
           THEN /\ mp4' = [call EXCEPT !.pc = "settled", !.outcome = "rejected",
                                        !.error = "mkdtemp"]
                /\ UNCHANGED <<tmpDirs, encoder>>
           ELSE IF fault.at # "none"
           THEN /\ mp4' = [call EXCEPT !.pc = "settled", !.outcome = "rejected",
                                        !.error = fault.at, !.tmpDir = dir,
                                        !.rendered = RenderCalls(frameCount, fault)]
                /\ tmpDirs' = Append(tmpDirs,
                                     RmSync([exists |-> TRUE,
                                             files |-> FilesWritten(frameCount, fault)]))
                /\ UNCHANGED encoder
           ELSE /\ mp4' = [call EXCEPT !.pc = "encoding", !.tmpDir = dir,
                                        !.rendered = frameCount]
                /\ tmpDirs' = Append(tmpDirs,
                                     [exists |-> TRUE,
                                      files |-> FilesWritten(frameCount, fault)])
                /\ encoder' = [state |-> "running",
                               inputs |-> EncoderInputs(dir, frameDurations),
                               filter |-> BuildFilter(frameDurations, tr),
                               output |-> dir]

\* A call of renderMp4 on its own.
RenderMp4(frames, transition, fault) ==
    /\ Len(tmpDirs) < MaxRenders
    /\ RenderMp4Call(frames, transition, fault)
    /\ UNCHANGED <<hashVars, catVars, poolVars, rotVars, selVars, cacheVars, batchVars,
                   paintVars, jobVars,
                   syncVars, textVars>>

\* FFmpeg's 'end' event: the promise of buildMp4WithXfade resolves and
\* renderMp4 goes on to its import of 'fs'.
EncoderEnds ==
    /\ mp4.pc = "encoding"
    /\ encoder.state = "running"
    /\ encoder' = [encoder EXCEPT !.state = "ended"]
    /\ tmpDirs' = [tmpDirs EXCEPT ![mp4.tmpDir].files = @ \cup {OutputFile}]
    /\ mp4' = [mp4 EXCEPT !.pc = "importing"]
    /\ UNCHANGED <<hashVars, catVars, poolVars, rotVars, selVars, cacheVars, batchVars, paintVars,
                   jobVars,
                   syncVars, textVars>>

\* FFmpeg's 'error' event: the promise rejects, the finally block runs.
EncoderErrors ==
    /\ mp4.pc = "encoding"
    /\ encoder.state = "running"
    /\ encoder' = [encoder EXCEPT !.state = "errored"]
    /\ tmpDirs' = [tmpDirs EXCEPT ![mp4.tmpDir] = RmSync(@)]
    /\ mp4' = [mp4 EXCEPT !.pc = "settled", !.outcome = "rejected", !.error = "ffmpeg"]
    /\ UNCHANGED <<hashVars, catVars, poolVars, rotVars, selVars, cacheVars, batchVars, paintVars,
                   jobVars,
                   syncVars, textVars>>

\* The FFmpeg process hangs: from here on it neither ends nor errors.
EncoderStalls ==
    /\ mp4.pc = "encoding"
    /\ encoder.state = "running"
    /\ encoder' = [encoder EXCEPT !.state = "stalled"]
    /\ UNCHANGED <<mp4, tmpDirs, hashVars, catVars, poolVars, rotVars, selVars, cacheVars,
                   batchVars, paintVars,
                   jobVars,
                   syncVars, textVars>>

\* readFileSync(outputPath) returns the bytes or throws; the finally block
\* runs and renderMp4 settles.
ReadOutput(ok) ==
    /\ mp4.pc = "importing"
    /\ tmpDirs' = [tmpDirs EXCEPT ![mp4.tmpDir] = RmSync(@)]
    /\ mp4' = IF ok THEN [mp4 EXCEPT !.pc = "settled", !.outcome = "resolved"]
              ELSE [mp4 EXCEPT !.pc = "settled", !.outcome = "rejected", !.error = "read"]
    /\ UNCHANGED <<encoder, hashVars, catVars, poolVars, rotVars, selVars, cacheVars,
                   batchVars, paintVars,
                   jobVars,
                   syncVars, textVars>>

\* The caller has taken the bytes or the error.
Mp4Return ==
    /\ mp4.pc = "settled"
    /\ mp4' = IdleMp4
    /\ encoder' = NoEncoder
    /\ UNCHANGED <<tmpDirs, hashVars, catVars, poolVars, rotVars, selVars, cacheVars,
                   batchVars, paintVars,
                   jobVars,
                   syncVars, textVars>>

(***************************************************************************)
(* SpecMp4: renderMp4 calls over short templates                           *)
(***************************************************************************)

\* Most frames of a template.
MaxFrames == 4

\* durationMs of a frame: unset (0) or given.
FrameDurationsMs == {0, 2000}

Mp4Templates ==
    {[i \in 1..Len(q) |-> [durationMs |-> q[i]]] : q \in SeqsUpTo(FrameDurationsMs, MaxFrames)}

\* template.transition: unset, or a zoom of 500 ms.
Mp4Transitions ==
    {[type |-> Undefined, durationMs |-> 0], [type |-> "zoom", durationMs |-> 500]}

Mp4Init ==
    /\ Mp4Idle
    /\ batch = IdleBatch
    /\ paint = IdlePaint
    /\ job = IdleJob
    /\ registry = IdleRegistry
    /\ wrapped = IdleWrap
    /\ resolved = IdleResolve
    /\ templatesByAirtableId = EmptyMap
    /\ templatesByTemplateId = EmptyMap
    /\ HashIdle /\ PoolIdle /\ RotIdle /\ SelIdle /\ CacheIdle

\* The steps FFmpeg or the file system take for a call in progress.
Mp4Progress ==
    \/ EncoderEnds
    \/ EncoderErrors
    \/ \E ok \in BOOLEAN : ReadOutput(ok)

Mp4Next ==
    \/ \E frames \in Mp4Templates, transition \in Mp4Transitions :
          \E fault \in Faults(Len(frames)) : RenderMp4(frames, transition, fault)
    \/ EncoderStalls
    \/ Mp4Progress
    \/ Mp4Return

SpecMp4 == Mp4Init /\ [][Mp4Next]_vars

\* The step in which renderMp4 is called.
Mp4Called == mp4.pc = "idle" /\ mp4'.pc # "idle"

\* C13: a renderMp4 call with a template of fewer than 2 frames rejects in
\* the calling step itself, having made no renderPng call, created no
\* temporary directory or file and started no FFmpeg process.
C13_TooFewFramesRejected ==
    [][(Mp4Called /\ Len(mp4'.frames) < 2) =>
          /\ mp4'.pc = "settled"
          /\ mp4'.outcome = "rejected"
          /\ mp4'.error = "frames"
          /\ mp4'.rendered = 0
          /\ mp4'.tmpDir = 0
          /\ tmpDirs' = tmpDirs
          /\ encoder' = encoder
          /\ encoder.state = "none"
      ]_vars

\* C13 witness: a call with a one-frame template has been rejected.
C13_Witness ==
    /\ mp4.pc = "settled"
    /\ Len(mp4.frames) = 1
    /\ mp4.outcome = "rejected"
    /\ mp4.error = "frames"
    /\ tmpDirs = <<>>

\* C14: a temporary directory exists only while the renderMp4 call that made
\* it is waiting for FFmpeg or for its import; once the call has settled,
\* after a failed frame render, a failed frame write, an FFmpeg error, a
\* failed read or a success, its directory and all files in it are gone.
C14_TmpDirRemoved ==
    /\ \A d \in 1..Len(tmpDirs) :
          (tmpDirs[d].exists \/ tmpDirs[d].files # {}) =>
              mp4.pc \in {"encoding", "importing"} /\ mp4.tmpDir = d
    /\ (mp4.pc = "settled" /\ mp4.tmpDir # 0) =>
          /\ mp4.tmpDir \in 1..Len(tmpDirs)
          /\ ~tmpDirs[mp4.tmpDir].exists
          /\ tmpDirs[mp4.tmpDir].files = {}

\* C14 witness: two calls that made a directory have settled, the first by
\* a failed frame write that left files behind it, the second with the
\* video's bytes; neither directory exists.
C14_Witness ==
    /\ Len(tmpDirs) = 2
    /\ mp4.pc = "settled"
    /\ mp4.outcome = "resolved"
    /\ mp4.tmpDir = 2
    /\ encoder.state = "ended"
    /\ \A d \in 1..2 : ~tmpDirs[d].exists

\* C15: a renderMp4 call that waits for FFmpeg can always go on: the process
\* ends or errors, or its time budget runs out and it is killed, so that
\* the call settles and its directory is removed.
C15_EncoderBudget ==
    mp4.pc \in {"encoding", "importing"} => ENABLED Mp4Progress

\* The sum of the hold durations of frames 0..i.
RECURSIVE SumHolds(_, _)
SumHolds(frames, i) ==
    IF i < 0 THEN 0 ELSE HoldMs(frames[i + 1]) + SumHolds(frames, i - 1)

\* C16: for a template of N >= 2 frames the filter FFmpeg is started with
\* has N-1 stages; stage i takes frame 0 (i = 0) or the output of stage i-1,
\* and frame i+1; the last stage alone writes [v] and normalizes the pixel
\* format; stage i's offset is the sum of the holds of frames 0..i minus
\* i+1 transition durations; and for N = 2 the filter is the one the
\* general chain computes.
C16_XfadeChain ==
    encoder.state # "none" =>
        LET N == Len(mp4.frames)
            t == TransitionMs(mp4.transition)
            stage(i) == encoder.filter[i + 1]
        IN  /\ N >= 2
            /\ Len(encoder.filter) = N - 1
            /\ \A i \in 0..(N - 2) :
                  /\ stage(i).inputA =
                        IF i = 0 THEN FrameLabel(0) ELSE stage(i - 1).output
                  /\ stage(i).inputB = FrameLabel(i + 1)
                  /\ stage(i).output.kind = "final" <=> i = N - 2
                  /\ stage(i).format <=> i = N - 2
                  /\ stage(i).duration = t
                  /\ stage(i).offset = SumHolds(mp4.frames, i) - (i + 1) * t
                  /\ \A j \in 0..(N - 2) : stage(j).output = stage(i).output => j = i
            /\ N = 2 =>
                  encoder.filter =
                     Chain(0, 2, 0, <<>>, FrameDurations(mp4.frames),
                           [type |-> MapTransitionType(mp4.transition.type), duration |-> t])

\* C16 witness: FFmpeg runs on four frames with holds of 3000, 2000, 3000
\* and 2000 ms and a 500 ms transition; its three stages start at 2500,
\* 4000 and 6500 ms.
C16_Witness ==
    /\ encoder.state = "running"
    /\ Len(mp4.frames) = 4
    /\ Len(encoder.filter) = 3
    /\ encoder.filter[1].offset = 2500
    /\ encoder.filter[2].offset = 4000
    /\ encoder.filter[3].offset = 6500
    /\ encoder.filter[2].inputA = StageLabel(1)
    /\ encoder.filter[3].output = FinalLabel

(***************************************************************************)
(* renderPng (engine/png-renderer.ts)                                      *)
(*                                                                         *)
(* The canvas is kept as its 2d context (globalAlpha, whether a shadow is  *)
(* set, the stack of saved states) and the list of paint calls made, each  *)
(* with the alpha and shadow it was made under.  A layer's draw function   *)
(* is modelled by its image lookup, its save / restore calls and one paint *)
(* call, which either paints or throws (the layer's fault).                *)
(***************************************************************************)

\* ctx.save()
Save(ctx) == [ctx EXCEPT !.stack = Append(@, [alpha |-> ctx.alpha, shadow |-> ctx.shadow])]

\* ctx.restore(): without a saved state it does nothing.
Restore(ctx) ==
    IF ctx.stack = <<>> THEN ctx
    ELSE LET top == ctx.stack[Len(ctx.stack)]
         IN  [alpha |-> top.alpha, shadow |-> top.shadow,
              stack |-> SubSeq(ctx.stack, 1, Len(ctx.stack) - 1)]

\* A canvas: its context, the paint calls made and whether a call threw.
NewCanvas == [ctx |-> NewContext, ops |-> <<>>, threw |-> FALSE]

\* A paint call of layer k (0 for the background): fillRect, fill,
\* drawImage or fillText; it throws when the layer is faulty.
PaintCall(cv, k, what, fault) ==
    IF fault THEN [cv EXCEPT !.threw = TRUE]
    ELSE [cv EXCEPT !.ops = Append(@, [layer |-> k, what |-> what,
                                        alpha |-> cv.ctx.alpha,
                                        shadow |-> cv.ctx.shadow])]

\* const img = userImages[index]: there is an Image at that index.
HasImage(userImages, index) == index \in 0..(userImages - 1)

\* drawImageCover / drawImageContain: save, clip, drawImage, restore.
DrawImageFit(cv, k, fault) ==
    LET c1 == [cv EXCEPT !.ctx = Save(@)]
        c2 == PaintCall(c1, k, "image", fault)
    IN  IF c2.threw THEN c2 ELSE [c2 EXCEPT !.ctx = Restore(@)]

\* A missing user image that throws (a faulty variant, used to test C17).
OnMissingImageThrow(cv) == [cv EXCEPT !.threw = TRUE]

\* if (!img) { console.warn(...); return; }
OnMissingImage(cv) == cv

\* drawBackground
DrawBackground(cv, bg, userImages) ==
    IF bg.type = "image"
    THEN IF HasImage(userImages, bg.index) THEN DrawImageFit(cv, 0, FALSE) ELSE cv
    ELSE PaintCall(cv, 0, "fill", FALSE)

\* drawRect and drawAccentBar
DrawRect(cv, k, layer) == PaintCall(cv, k, "fill", layer.fault)

\* drawImage
DrawImage(cv, k, layer, userImages) ==
    IF ~HasImage(userImages, layer.index) THEN OnMissingImage(cv)
    ELSE LET c1 == IF layer.shadow
                   THEN [cv EXCEPT !.ctx = [Save(@) EXCEPT !.shadow = TRUE]]
                   ELSE cv
             c2 == DrawImageFit(c1, k, layer.fault)
         IN  IF c2.threw THEN c2
             ELSE IF layer.shadow THEN [c2 EXCEPT !.ctx = Restore(@)] ELSE c2

\* drawText: a text that resolves to the empty string draws nothing.
DrawText(cv, k, layer) ==
    IF layer.empty THEN cv ELSE PaintCall(cv, k, "text", layer.fault)

\* drawLogo
DrawLogo(cv, k, layer, logoImage) ==
    IF ~logoImage THEN cv
    ELSE LET c1 == IF layer.background THEN PaintCall(cv, k, "fill", layer.fault) ELSE cv
         IN  IF c1.threw THEN c1 ELSE DrawImageFit(c1, k, layer.fault)

\* layer.opacity !== undefined && layer.opacity < 1
Translucent(layer) == layer.opacity.given /\ layer.opacity.tenths < 10

\* drawLayer
DrawLayer(cv, k, layer, userImages, logoImage) ==
    LET c1 == IF Translucent(layer)
              THEN [cv EXCEPT !.ctx = [Save(@) EXCEPT !.alpha = layer.opacity.tenths]]
              ELSE cv
        c2 == CASE layer.type = "rect"       -> DrawRect(c1, k, layer)
                [] layer.type = "image"      -> DrawImage(c1, k, layer, userImages)
                [] layer.type = "text"       -> DrawText(c1, k, layer)
                [] layer.type = "logo"       -> DrawLogo(c1, k, layer, logoImage)
                [] layer.type = "accent_bar" -> DrawRect(c1, k, layer)
                [] OTHER                     -> c1
    IN  IF c2.threw THEN c2
        ELSE IF Translucent(layer) THEN [c2 EXCEPT !.ctx = Restore(@)] ELSE c2

\* A loop that draws only the layers marked visible (a faulty variant, used
\* to test C19).
SkippedUnlessTrue(layer) == layer.visible # "true"

\* if (layer.visible === false) continue
Skipped(layer) == layer.visible = "false"

\* for (const layer of frame.layers): the canvas, the layers handed to
\* drawLayer and the context before and after each; a throw ends the loop.
RECURSIVE DrawLayers(_, _, _, _, _)
DrawLayers(run, layers, k, userImages, logoImage) ==
    IF k > Len(layers) \/ run.cv.threw THEN run
    ELSE IF Skipped(layers[k])
    THEN DrawLayers(run, layers, k + 1, userImages, logoImage)
    ELSE LET c2 == DrawLayer(run.cv, k, layers[k], userImages, logoImage)
         IN  DrawLayers([cv |-> c2,
                         drawn |-> Append(run.drawn, k),
                         steps |-> Append(run.steps,
                                          [layer |-> k, before |-> run.cv.ctx,
                                           after |-> c2.ctx, threw |-> c2.threw])],
                        layers, k + 1, userImages, logoImage)

\* renderPng(ctx): the background, the layers, canvas.toBuffer('image/png');
\* a throw of a draw leaves renderPng as it is.
RenderPng(frame, userImages, logoImage) ==
    /\ ~paint.called
    /\ LET c0 == DrawBackground(NewCanvas, frame.background, userImages)
           run == DrawLayers([cv |-> c0, drawn |-> <<>>, steps |-> <<>>],
                             frame.layers, 1, userImages, logoImage)
       IN  paint' = [called |-> TRUE, frame |-> frame, userImages |-> userImages,
                     logoImage |-> logoImage, ctx |-> run.cv.ctx, drawn |-> run.drawn,
                     steps |-> run.steps, ops |-> run.cv.ops,
                     result |-> IF run.cv.threw THEN "error" ELSE "png"]
    /\ UNCHANGED <<hashVars, catVars, poolVars, rotVars, selVars, cacheVars, batchVars,
                   mp4Vars, jobVars,
                   syncVars, textVars>>

(***************************************************************************)
(* SpecPaint: renderPng over short frames                                  *)
(***************************************************************************)

\* Most layers of a frame.
MaxLayers == 3

\* A layer with the fields the renderer reads.
Layer(type, opacity, visible, index, shadow, fault) ==
    [type |-> type,
     opacity |-> IF opacity = 0 THEN [given |-> FALSE, tenths |-> 10]
                 ELSE [given |-> TRUE, tenths |-> opacity],
     visible |-> visible, index |-> index, shadow |-> shadow,
     background |-> type = "logo", empty |-> FALSE, fault |-> fault]

\* The layers frames are built from: opaque and translucent ones, an image
\* that exists (index 0) and one that may not (index 1), a logo, a hidden
\* text, a text that resolves to nothing, and layers whose paint call throws.
PaintLayers ==
    { Layer("rect", 0, Undefined, 0, FALSE, FALSE),
      Layer("accent_bar", 5, "true", 0, FALSE, FALSE),
      Layer("text", 10, "false", 0, FALSE, FALSE),
      Layer("image", 5, Undefined, 0, TRUE, FALSE),
      Layer("image", 5, Undefined, 1, TRUE, FALSE),
      Layer("logo", 5, Undefined, 0, FALSE, FALSE),
      Layer("text", 5, Undefined, 0, FALSE, TRUE),
      [Layer("text", 0, Undefined, 0, FALSE, FALSE) EXCEPT !.empty = TRUE],
      Layer("image", 0, Undefined, 0, TRUE, TRUE) }

PaintBackgrounds ==
    { [type |-> "solid", index |-> 0], [type |-> "image", index |-> 0],
      [type |-> "image", index |-> 1] }

PaintFrames ==
    {[background |-> bg, layers |-> ls] :
        bg \in PaintBackgrounds, ls \in SeqsUpTo(PaintLayers, MaxLayers)}

PaintInit ==
    /\ paint = IdlePaint
    /\ batch = IdleBatch
    /\ Mp4Idle
    /\ job = IdleJob
    /\ registry = IdleRegistry
    /\ wrapped = IdleWrap
    /\ resolved = IdleResolve
    /\ templatesByAirtableId = EmptyMap
    /\ templatesByTemplateId = EmptyMap
    /\ HashIdle /\ PoolIdle /\ RotIdle /\ SelIdle /\ CacheIdle

PaintNext ==
    \E frame \in PaintFrames, userImages \in 0..2, logoImage \in BOOLEAN :
        RenderPng(frame, userImages, logoImage)

SpecPaint == PaintInit /\ [][PaintNext]_vars

\* Layer k of the painted frame refers to an image that was not supplied.
MissingImage(k) ==
    LET layer == paint.frame.layers[k]
    IN  \/ layer.type = "image" /\ ~HasImage(paint.userImages, layer.index)
        \/ layer.type = "logo" /\ ~paint.logoImage

\* The layers of the painted frame that are not hidden, in list order.
RECURSIVE VisibleFrom(_, _)
VisibleFrom(layers, k) ==
    IF k > Len(layers) THEN <<>>
    ELSE IF layers[k].visible = "false" THEN VisibleFrom(layers, k + 1)
    ELSE <<k>> \o VisibleFrom(layers, k + 1)

\* C17: in a finished renderPng call a layer (or background) whose image is
\* missing makes no paint call, does not throw and leaves the context as it
\* found it; when no layer with its image at hand is faulty, the call
\* returns PNG bytes, every visible layer was handed to drawLayer and every
\* one of them that has its image (and a text that is not empty) has painted.
C17_MissingImageSkipped ==
    paint.called =>
        /\ \A s \in 1..Len(paint.steps) :
              MissingImage(paint.steps[s].layer) =>
                  /\ ~paint.steps[s].threw
                  /\ paint.steps[s].after = paint.steps[s].before
                  /\ \A o \in 1..Len(paint.ops) :
                        paint.ops[o].layer # paint.steps[s].layer
        /\ (paint.frame.background.type = "image"
              /\ ~HasImage(paint.userImages, paint.frame.background.index)) =>
                 \A o \in 1..Len(paint.ops) : paint.ops[o].layer # 0
        /\ (\A k \in 1..Len(paint.frame.layers) :
                paint.frame.layers[k].fault =>
                    (MissingImage(k) \/ paint.frame.layers[k].visible = "false")) =>
              /\ paint.result = "png"
              /\ paint.drawn = VisibleFrom(paint.frame.layers, 1)
              /\ \A k \in 1..Len(paint.frame.layers) :
                    (/\ paint.frame.layers[k].visible # "false"
                     /\ ~MissingImage(k)
                     /\ ~paint.frame.layers[k].empty) =>
                        \E o \in 1..Len(paint.ops) : paint.ops[o].layer = k

\* C17 witness: a frame whose background image and first two layers (an
\* image and a logo) have no image was rendered to PNG bytes, and its third
\* layer is the only thing painted.
C17_Witness ==
    /\ paint.called
    /\ paint.result = "png"
    /\ paint.frame.background.type = "image"
    /\ Len(paint.frame.layers) = 3
    /\ paint.frame.layers[1].type = "image" /\ MissingImage(1)
    /\ paint.frame.layers[2].type = "logo" /\ MissingImage(2)
    /\ paint.drawn = <<1, 2, 3>>
    /\ Len(paint.ops) = 1
    /\ paint.ops[1].layer = 3

\* C18: drawLayer leaves the context as it found it (globalAlpha, shadow
\* and the stack of saved states), however the layer's draw ended, so that
\* every layer is painted under its own opacity and shadow only.
C18_AlphaRestored ==
    /\ \A s \in 1..Len(paint.steps) :
          paint.steps[s].after = paint.steps[s].before
    /\ \A o \in 1..Len(paint.ops) :
          paint.ops[o].layer # 0 =>
              LET layer == paint.frame.layers[paint.ops[o].layer]
              IN  /\ paint.ops[o].alpha = layer.opacity.tenths
                  /\ paint.ops[o].shadow =>
                        (layer.type = "image" /\ layer.shadow)

\* C19: the background is painted before any layer, and the layers handed
\* to drawLayer are, in this order and once each, the layers of the frame
\* that are not hidden: all of them when renderPng returns, those up to the
\* one that threw otherwise; the paint calls follow the same order.
C19_LayersInOrder ==
    paint.called =>
        LET visible == VisibleFrom(paint.frame.layers, 1)
        IN  /\ Len(paint.drawn) <= Len(visible)
            /\ paint.drawn = SubSeq(visible, 1, Len(paint.drawn))
            /\ paint.result = "png" => paint.drawn = visible
            /\ paint.result = "error" =>
                  /\ paint.drawn # <<>>
                  /\ paint.steps[Len(paint.steps)].threw
            /\ \A o, q \in 1..Len(paint.ops) :
                  o < q => paint.ops[o].layer <= paint.ops[q].layer
            /\ \A o \in 1..Len(paint.ops) :
                  paint.ops[o].layer # 0 =>
                      \E s \in 1..Len(paint.drawn) : paint.drawn[s] = paint.ops[o].layer

\* C19 witness: a frame with a hidden layer between two others was rendered;
\* the background was painted first, then layer 1, then layer 3.
C19_Witness ==
    /\ paint.result = "png"
    /\ Len(paint.frame.layers) = 3
    /\ paint.frame.layers[2].visible = "false"
    /\ paint.frame.layers[3].visible = "true"
    /\ paint.drawn = <<1, 3>>
    /\ Len(paint.ops) = 3
    /\ paint.ops[1].layer = 0 /\ paint.ops[2].layer = 1 /\ paint.ops[3].layer = 3

(***************************************************************************)
(* POST /api/render/sync (routes/render.ts)                                *)
(***************************************************************************)

\* record.user_images.filter(Boolean): the URLs that are set (not 0).
RECURSIVE FilterBoolean(_)
FilterBoolean(urls) ==
    IF urls = <<>> THEN <<>>
    ELSE IF Head(urls) = 0 THEN FilterBoolean(Tail(urls))
    ELSE <<Head(urls)>> \o FilterBoolean(Tail(urls))

\* The URLs loadRemoteImage is called with, in call order: the user images,
\* then the logo, the square and the landscape CTA image, each if it is set.
JobUrls(record) ==
    FilterBoolean(record.user_images)
        \o FilterBoolean(<<record.logo_url, record.square_cta_image_url,
                           record.landscape_cta_image_url>>)

\* loadRemoteImage(url) without a catch: a failed load rejects (a faulty
\* variant, used to test C12).
ImagePromiseUncaught(ld) ==
    IF ld.pc # "done" THEN "pending"
    ELSE IF ld.outcome = "error" THEN "rejected" ELSE "fulfilled"

\* loadRemoteImage(url).catch(() => null): pending until the load settles,
\* then fulfilled with the Image or with null.
ImagePromise(ld) == IF ld.pc # "done" THEN "pending" ELSE "fulfilled"

\* Promise.all over the image, logo and CTA promises.
PromiseAll(lds, n) ==
    IF \E i \in Slots(n) : ImagePromise(lds[i]) = "rejected" THEN "rejected"
    ELSE IF \E i \in Slots(n) : ImagePromise(lds[i]) = "pending" THEN "pending"
    ELSE "fulfilled"

\* loadedImages.filter(img => img !== null): how many user images loaded.
LoadedUserImages(lds, record) ==
    Cardinality({i \in Slots(Len(FilterBoolean(record.user_images))) : Fulfilled(lds[i])})

\* A list that keeps a place for every user image, null where the load
\* failed (a faulty variant, used to test C29).
UserImagesWithGaps(lds, record) ==
    [i \in Slots(Len(FilterBoolean(record.user_images))) |->
        IF Fulfilled(lds[i]) THEN i ELSE 0]

\* loadedImages.filter(img => img !== null): the user images that loaded,
\* each named by the place of its URL in imageUrls, in that order.
UserImagesOf(lds, record) ==
    LET n == Len(FilterBoolean(record.user_images))
        Kept[i \in 0..n] ==
            IF i = 0 THEN <<>>
            ELSE IF Fulfilled(lds[i]) THEN Append(Kept[i - 1], i) ELSE Kept[i - 1]
    IN  Kept[n]

\* userImages[layer.index]: the image an image layer draws, 0 for none.
ImageAt(images, index) ==
    IF index + 1 \in 1..Len(images) THEN images[index + 1] ELSE 0

\* res.status(status).json(body)
Respond(j, status, success, error) ==
    [j EXCEPT !.pc = "done",
              !.responses = Append(@, [status |-> status, success |-> success,
                                       error |-> error])]

\* A handler without the try / catch: the error leaves it (a faulty
\* variant, used to test C20).
CaughtEscapes(j, errMsg) == [j EXCEPT !.pc = "done", !.error = errMsg, !.escaped = TRUE]

\* catch (error): the handler goes on to write the failed status.
Caught(j, errMsg) == [j EXCEPT !.pc = "writingFailed", !.error = errMsg]

\* Step 4 of the handler up to its await: every load is started.
StartJobLoads(j) ==
    LET urls == JobUrls(j.record)
        st == StartAll(imageCache, urls, 1, loads, fetches)
    IN  /\ loads' = st.loads
        /\ fetches' = st.fetches
        /\ job' = [j EXCEPT !.pc = "loading", !.urls = urls]

\* The request arrives: without a recordId it is answered with 400, else
\* the record is asked for.
SyncRequest(hasRecordId) ==
    /\ job.pc = "idle"
    /\ job' = IF hasRecordId THEN [job EXCEPT !.pc = "fetchingRecord"]
              ELSE Respond(job, 400, FALSE, "recordId is required")
    /\ UNCHANGED <<hashVars, catVars, poolVars, rotVars, selVars, cacheVars, batchVars,
                   mp4Vars, paintVars,
                   syncVars, textVars>>

\* getPostBuilderRecord settles: the skip guards, the template lookups and,
\* with a template, the start of the image loads.
RecordSettles(ok, record) ==
    /\ job.pc = "fetchingRecord"
    /\ IF ~ok
       THEN /\ job' = Caught(job, "record")
            /\ UNCHANGED <<loads, fetches>>
       ELSE IF record.skip # "none"
       THEN /\ job' = Respond([job EXCEPT !.record = record], 200, TRUE, "")
            /\ UNCHANGED <<loads, fetches>>
       ELSE IF record.template = NoJobTemplate
       THEN /\ job' = [job EXCEPT !.pc = "selecting", !.record = record]
            /\ UNCHANGED <<loads, fetches>>
       ELSE StartJobLoads([job EXCEPT !.record = record, !.template = record.template])
    /\ UNCHANGED <<imageCache, lastEvicted, hashVars, catVars, poolVars, rotVars, selVars,
                   batchVars, mp4Vars, paintVars,
                   syncVars, textVars>>

\* autoSelectTemplate settles with a template or with none.
SelectSettles(template) ==
    /\ job.pc = "selecting"
    /\ IF template = NoJobTemplate
       THEN /\ job' = [job EXCEPT !.pc = "writingNotFound"]
            /\ UNCHANGED <<loads, fetches>>
       ELSE StartJobLoads([job EXCEPT !.template = template])
    /\ UNCHANGED <<imageCache, lastEvicted, hashVars, catVars, poolVars, rotVars, selVars,
                   batchVars, mp4Vars, paintVars,
                   syncVars, textVars>>

\* The failed-status write of the not-found path settles.
NotFoundWriteSettles(ok) ==
    /\ job.pc = "writingNotFound"
    /\ job' = IF ok
              THEN Respond([job EXCEPT !.writes = Append(@, "failed")],
                           404, FALSE, "Template not found")
              ELSE Caught(job, "write")
    /\ UNCHANGED <<hashVars, catVars, poolVars, rotVars, selVars, cacheVars, batchVars,
                   mp4Vars, paintVars,
                   syncVars, textVars>>

\* The await of Promise.all over the loads resumes: the render. renderPng
\* returns or throws at once; renderMp4 runs up to its first await.
ImagesSettle(renderOk, fault) ==
    /\ job.pc = "loading"
    /\ PromiseAll(loads, Len(job.urls)) # "pending"
    /\ IF PromiseAll(loads, Len(job.urls)) = "rejected"
       THEN /\ job' = Caught(job, "load")
            /\ UNCHANGED mp4Vars
       ELSE LET j == [job EXCEPT !.renderStarted = TRUE,
                                 !.userImages = LoadedUserImages(loads, job.record),
                                 !.images = UserImagesOf(loads, job.record)]
            IN  IF job.template.outputFormat = "mp4"
                THEN /\ RenderMp4Call(job.template.frames,
                                      [type |-> Undefined, durationMs |-> 0], fault)
                     /\ job' = [j EXCEPT !.pc = "encoding"]
                ELSE /\ fault = NoFault
                     /\ job' = IF renderOk THEN [j EXCEPT !.pc = "uploading"]
                               ELSE Caught(j, "render")
                     /\ UNCHANGED mp4Vars
    /\ UNCHANGED <<hashVars, catVars, poolVars, rotVars, selVars, cacheVars, batchVars,
                   paintVars,
                   syncVars, textVars>>

\* renderMp4 has settled: its bytes go to the upload, its error to the catch.
JobMp4Settles ==
    /\ job.pc = "encoding"
    /\ mp4.pc = "settled"
    /\ job' = IF mp4.outcome = "resolved" THEN [job EXCEPT !.pc = "uploading"]
              ELSE Caught(job, "render")
    /\ mp4' = IdleMp4
    /\ encoder' = NoEncoder
    /\ UNCHANGED <<tmpDirs, hashVars, catVars, poolVars, rotVars, selVars, cacheVars,
                   batchVars, paintVars,
                   syncVars, textVars>>

\* uploadRender settles.
UploadSettles(ok) ==
    /\ job.pc = "uploading"
    /\ job' = IF ok THEN [job EXCEPT !.pc = "writingCompleted"] ELSE Caught(job, "upload")
    /\ UNCHANGED <<hashVars, catVars, poolVars, rotVars, selVars, cacheVars, batchVars,
                   mp4Vars, paintVars,
                   syncVars, textVars>>

\* The completed-status write settles: the success response, or the catch.
CompletedWriteSettles(ok) ==
    /\ job.pc = "writingCompleted"
    /\ job' = IF ok
              THEN Respond([job EXCEPT !.writes = Append(@, "completed")], 200, TRUE, "")
              ELSE Caught(job, "write")
    /\ UNCHANGED <<hashVars, catVars, poolVars, rotVars, selVars, cacheVars, batchVars,
                   mp4Vars, paintVars,
                   syncVars, textVars>>

\* The failed-status write of the catch block settles; its own failure is
\* swallowed, and the 500 response is sent.
FailedWriteSettles(ok) ==
    /\ job.pc = "writingFailed"
    /\ job' = Respond([job EXCEPT !.writes = IF ok THEN Append(@, "failed") ELSE @],
                      500, FALSE, job.error)
    /\ UNCHANGED <<hashVars, catVars, poolVars, rotVars, selVars, cacheVars, batchVars,
                   mp4Vars, paintVars,
                   syncVars, textVars>>

(***************************************************************************)
(* SpecJob: one request, from its arrival to its response                  *)
(***************************************************************************)

\* A still template, a two-frame video template and a video template that
\* has only one frame.
TplPng      == [outputFormat |-> "png", frames |-> <<[durationMs |-> 0]>>]
TplMp4      == [outputFormat |-> "mp4", frames |-> <<[durationMs |-> 0], [durationMs |-> 2000]>>]
TplMp4Short == [outputFormat |-> "mp4", frames |-> <<[durationMs |-> 0]>>]
JobTemplates == {TplPng, TplMp4, TplMp4Short}

\* The records of the jobs: skipped ones; one with a user image, a logo and
\* both CTA images; one with the same user image twice and an unset entry.
JobRecords ==
    {[EmptyRecord EXCEPT !.skip = s] :
        s \in {"is_text_only", "upload_as_gallery", "is_user_uploaded_video"}}
    \cup {[EmptyRecord EXCEPT !.template = t, !.user_images = <<2>>, !.logo_url = 1,
                              !.square_cta_image_url = 3,
                              !.landscape_cta_image_url = 4] :
             t \in JobTemplates \cup {NoJobTemplate}}
    \cup {[EmptyRecord EXCEPT !.template = t, !.user_images = <<2, 0, 2>>] :
             t \in {TplPng, NoJobTemplate}}

JobInit ==
    /\ \E n \in 0..1 : imageCache = Filled(n)
    /\ loads = [p \in Loaders |-> IdleLoad]
    /\ fetches = 0
    /\ lastEvicted = NoEviction
    /\ batch = IdleBatch
    /\ Mp4Idle
    /\ paint = IdlePaint
    /\ job = IdleJob
    /\ registry = IdleRegistry
    /\ wrapped = IdleWrap
    /\ resolved = IdleResolve
    /\ templatesByAirtableId = EmptyMap
    /\ templatesByTemplateId = EmptyMap
    /\ HashIdle /\ PoolIdle /\ RotIdle /\ SelIdle

JobNext ==
    \/ \E hasRecordId \in BOOLEAN : SyncRequest(hasRecordId)
    \/ \E ok \in BOOLEAN, record \in JobRecords : RecordSettles(ok, record)
    \/ \E template \in JobTemplates \cup {NoJobTemplate} : SelectSettles(template)
    \/ \E ok \in BOOLEAN : NotFoundWriteSettles(ok)
    \/ \E p \in Loaders, ok \in BOOLEAN : FetchSettles(p, ok)
    \/ \E p \in Loaders, ok \in BOOLEAN : DecodeSettles(p, ok)
    \/ \E renderOk \in BOOLEAN, fault \in Faults(MaxFrames) : ImagesSettle(renderOk, fault)
    \/ EncoderStalls
    \/ Mp4Progress
    \/ JobMp4Settles
    \/ \E ok \in BOOLEAN : UploadSettles(ok)
    \/ \E ok \in BOOLEAN : CompletedWriteSettles(ok)
    \/ \E ok \in BOOLEAN : FailedWriteSettles(ok)

SpecJob == JobInit /\ [][JobNext]_vars

\* C12: while the handler waits for the images every URL of the record (user
\* images, logo, both CTA images) has its load started; the render starts
\* only when every one of these loads has settled; and a load that failed
\* neither keeps another from settling nor puts the job on its error path.
C12_FanOutFanIn ==
    /\ job.pc = "loading" =>
          /\ job.urls = JobUrls(job.record)
          /\ \A i \in Slots(Len(job.urls)) :
                loads[i].pc # "idle" /\ loads[i].url = job.urls[i]
    /\ job.renderStarted =>
          \A i \in Slots(Len(job.urls)) : loads[i].pc = "done"
    /\ job.error # "load"
    /\ job.pc \in {"encoding", "uploading", "writingCompleted"} => job.renderStarted
    /\ (job.pc = "loading" /\ \A i \in Slots(Len(job.urls)) : loads[i].pc = "done") =>
          ENABLED (\E renderOk \in BOOLEAN :
                     ImagesSettle(renderOk, NoFault) /\ job'.renderStarted)

\* C12 witness: the render of a job with four URLs has started after the
\* user image's fetch failed and the logo and both CTA images loaded.
C12_Witness ==
    /\ job.renderStarted
    /\ Len(job.urls) = 4
    /\ loads[1].outcome = "error"
    /\ \A i \in 2..4 : loads[i].outcome = "loaded"
    /\ job.userImages = 0
    /\ job.pc = "uploading"

\* C20: at most one response is ever sent and no error leaves the handler;
\* a request that has ended has exactly one response, which is a success
\* or a failure with an error string.
C20_OneResponse ==
    /\ Len(job.responses) <= 1
    /\ ~job.escaped
    /\ job.pc = "done" <=> Len(job.responses) = 1
    /\ \A r \in 1..Len(job.responses) :
          \/ job.responses[r].success /\ job.responses[r].status = 200
          \/ /\ ~job.responses[r].success
             /\ job.responses[r].error # ""
             /\ job.responses[r].status \in {400, 404, 500}

\* C20 witness: the status write after a successful upload failed, the
\* write of the failed status failed too, and the one response is the 500.
C20_Witness ==
    /\ job.pc = "done"
    /\ job.error = "write"
    /\ job.renderStarted
    /\ job.writes = <<>>
    /\ job.responses = <<[status |-> 500, success |-> FALSE, error |-> "write"]>>


\* The request reached step 3 with a record that is not skipped, and neither
\* the explicit lookups nor autoSelectTemplate gave a template.
NoTemplateResolved ==
    /\ job.record # EmptyRecord
    /\ job.record.skip = "none"
    /\ job.template = NoJobTemplate
    /\ job.pc \in {"writingNotFound", "writingFailed", "done"}

\* C21: a request for which no template was resolved ends with the
\* not-found response (404, 'Template not found') whether or not the write
\* of the failed status succeeded.
C21_NotFoundBestEffort ==
    (NoTemplateResolved /\ job.pc = "done") =>
        job.responses = <<[status |-> 404, success |-> FALSE,
                           error |-> "Template not found"]>>


(***************************************************************************)
(* Catalog refresh and template save (registry.ts, routes/design.ts)       *)
(***************************************************************************)

\* templateSchema.parse, for the fields the model keeps: outputFormat is
\* 'png' or 'mp4', imageCount is at least 0, frames has at least one entry.
TemplateSchemaAccepts(t) ==
    /\ t.id # Undefined
    /\ t.outputFormat \in {"png", "mp4"}
    /\ t.imageCount >= 0
    /\ t.frames >= 1

\* JSON.parse(rec.template_json) followed by templateSchema.parse.
ParseTemplateJson(t) ==
    [kind |-> IF TemplateSchemaAccepts(t) THEN "valid" ELSE "invalid", template |-> t]

\* syncFromAirtable from the settling of fetchAllTemplates to its return: the
\* maps and the returned count.
SyncSettles(ok, records) ==
    IF ok
    THEN LET maps == SyncFromAirtable(records)
         IN  [byAirtableId |-> maps.byAirtableId, byTemplateId |-> maps.byTemplateId,
              result |-> Cardinality(DOMAIN maps.byAirtableId)]
    ELSE [byAirtableId |-> templatesByAirtableId,
          byTemplateId |-> EnsureBuiltinsFallback(templatesByTemplateId),
          result |-> 0]

\* saveTemplate(template)
SaveTemplate(byTemplateId, template) ==
    MapSet(byTemplateId, template.id,
           [template |-> template, airtableRecordId |-> 0, rotationWeight |-> 10,
            categoryKeys |-> {}])

\* getTemplateByAirtableId(airtableRecordId)
GetTemplateByAirtableId(airtableRecordId) ==
    IF airtableRecordId \in DOMAIN templatesByAirtableId
    THEN templatesByAirtableId[airtableRecordId].template
    ELSE NoTemplate

\* res.json / res.status(400).json of the save handler
SaveResponds(save, status) ==
    [save EXCEPT !.pc = "done", !.responses = Append(@, status)]

\* The row saveTemplateToAirtable creates: inactive, with the template as JSON.
SavedRow(template) ==
    [id |-> 3, template_active |-> FALSE, builtin_id |-> "",
     template_json |-> ParseTemplateJson(template), rotation_weight |-> 10,
     category_keys |-> {}]

\* The timer fires or a manual refresh is asked for: syncFromAirtable runs
\* up to its await of fetchAllTemplates.
SyncCall(p) ==
    /\ p \in {TimerCaller, ManualCaller}
    /\ p \notin registry.fetching
    /\ registry' = [registry EXCEPT !.fetching = @ \cup {p}]
    /\ UNCHANGED <<hashVars, catVars, poolVars, rotVars, selVars, cacheVars, batchVars,
                   mp4Vars, paintVars, jobVars, textVars>>

\* fetchAllTemplates settles and syncFromAirtable runs to its return: the
\* rebuild of both maps, or the fallback. The save handler then answers.
FetchAllSettles(p, ok) ==
    /\ p \in registry.fetching
    /\ LET out == SyncSettles(ok, registry.table)
       IN  /\ templatesByAirtableId' = out.byAirtableId
           /\ templatesByTemplateId' = out.byTemplateId
           /\ registry' =
                [registry EXCEPT
                    !.fetching = @ \ {p},
                    !.last = [failed |-> ~ok, result |-> out.result],
                    !.lastRecords = IF ok THEN registry.table ELSE @,
                    !.refreshed = IF ok THEN TRUE ELSE @,
                    !.save = IF p = SaveCaller THEN SaveResponds(@, 200) ELSE @]
    /\ UNCHANGED <<hashVars, poolVars, rotVars, selVars, cacheVars, batchVars,
                   mp4Vars, paintVars, jobVars, textVars>>

\* The Templates table is edited in Airtable.
TableEdited(table) ==
    /\ table # registry.table
    /\ registry' = [registry EXCEPT !.table = table]
    /\ UNCHANGED <<hashVars, catVars, poolVars, rotVars, selVars, cacheVars, batchVars,
                   mp4Vars, paintVars, jobVars, textVars>>

\* POST /api/design/save up to its first await: the 400 answer, or
\* saveTemplate and then either the answer or the call of
\* saveTemplateToAirtable.
SaveRequest(template, persistToAirtable) ==
    /\ registry.save.pc = "idle"
    /\ LET save == [registry.save EXCEPT !.template = template]
       IN  IF template.id = Undefined \/ template.frames < 0
           THEN /\ registry' = [registry EXCEPT !.save = SaveResponds(save, 400)]
                /\ UNCHANGED templatesByTemplateId
           ELSE /\ templatesByTemplateId' = SaveTemplate(templatesByTemplateId, template)
                /\ registry' =
                     [registry EXCEPT
                        !.save = IF persistToAirtable
                                 THEN [save EXCEPT !.pc = "persisting"]
                                 ELSE SaveResponds(save, 200)]
    /\ UNCHANGED <<templatesByAirtableId, hashVars, poolVars, rotVars, selVars, cacheVars,
                   batchVars, mp4Vars, paintVars, jobVars, textVars>>

\* saveTemplateToAirtable settles: the row is in the table and refreshRegistry
\* is called, or the failure is caught and the handler answers.
SaveToAirtableSettles(ok) ==
    /\ registry.save.pc = "persisting"
    /\ registry' =
         IF ok
         THEN [registry EXCEPT
                 !.table = Append(@, SavedRow(registry.save.template)),
                 !.fetching = @ \cup {SaveCaller},
                 !.save = [@ EXCEPT !.pc = "refreshing"]]
         ELSE [registry EXCEPT !.save = SaveResponds(@, 200)]
    /\ UNCHANGED <<hashVars, catVars, poolVars, rotVars, selVars, cacheVars, batchVars,
                   mp4Vars, paintVars, jobVars, textVars>>

(***************************************************************************)
(* SpecSync: refreshes, table edits and one save request                   *)
(***************************************************************************)

\* A custom video template with one frame, and input without frames.
ShortVideo == [id |-> "custom-video", outputFormat |-> "mp4", imageCount |-> 2,
               origin |-> "json", frames |-> 1]
NoFrames == [id |-> "custom-empty", outputFormat |-> "png", imageCount |-> 1,
             origin |-> "json", frames |-> 0]
FramesMissing == [id |-> "custom-bare", outputFormat |-> "png", imageCount |-> 1,
                  origin |-> "json", frames |-> -1]

\* A row of the Templates table.
Row(id, active, builtin_id, template_json) ==
    [id |-> id, template_active |-> active, builtin_id |-> builtin_id,
     template_json |-> template_json, rotation_weight |-> 10, category_keys |-> {}]

\* The contents the Templates table is edited to.
SyncTables ==
    {<<>>,
     <<Row(1, TRUE, "main-1-image", NoJson), Row(2, TRUE, "", ParseTemplateJson(CustomTemplate))>>,
     <<Row(1, FALSE, "main-1-image", NoJson), Row(2, TRUE, "", ParseTemplateJson(NoFrames))>>,
     <<Row(1, TRUE, "slideshow-base", NoJson), Row(2, TRUE, "", ParseTemplateJson(ShortVideo))>>,
     <<Row(2, TRUE, "", NoJson), Row(1, TRUE, "", ParseTemplateJson(CustomTemplate))>>}

\* The templates a save request carries.
SaveTemplates == {CustomTemplate, ShortVideo, NoTemplate, FramesMissing}

\* The registry during initRegistry's own sync, or after initRegistry.
SyncInit ==
    /\ \/ /\ templatesByAirtableId = EmptyMap
          /\ templatesByTemplateId = EmptyMap
          /\ registry = [IdleRegistry EXCEPT !.fetching = {TimerCaller}]
       \/ \E table \in SyncTables :
             LET maps == InitRegistry(table)
             IN  /\ templatesByAirtableId = maps.byAirtableId
                 /\ templatesByTemplateId = maps.byTemplateId
                 /\ registry = [IdleRegistry EXCEPT !.table = table,
                                                    !.lastRecords = table,
                                                    !.refreshed = TRUE]
    /\ batch = IdleBatch /\ Mp4Idle /\ paint = IdlePaint /\ job = IdleJob
    /\ wrapped = IdleWrap /\ resolved = IdleResolve
    /\ HashIdle /\ PoolIdle /\ RotIdle /\ SelIdle /\ CacheIdle

SyncNext ==
    \/ \E p \in Refreshers : SyncCall(p)
    \/ \E p \in Refreshers, ok \in BOOLEAN : FetchAllSettles(p, ok)
    \/ \E table \in SyncTables : TableEdited(table)
    \/ \E template \in SaveTemplates, persistToAirtable \in BOOLEAN :
          SaveRequest(template, persistToAirtable)
    \/ \E ok \in BOOLEAN : SaveToAirtableSettles(ok)

SpecSync == SyncInit /\ [][SyncNext]_vars


\* The rows of a record list that have a place in the catalog: active, and
\* naming a built-in template or carrying a template_json that validates.
Usable(rec) ==
    /\ rec.template_active
    /\ rec.builtin_id \in BuiltinIds \/ rec.template_json.kind = "valid"

UsableRows(records) == {records[i] : i \in {j \in 1..Len(records) : Usable(records[j])}}

\* The template a usable row stands for.
TemplateOf(rec) ==
    IF rec.builtin_id \in BuiltinIds THEN BuiltinTemplate(rec.builtin_id)
    ELSE rec.template_json.template

\* The record ids of the entries of a rotation pool.
PoolRecordIds(pl) == {pl[i].airtableRecordId : i \in 1..Len(pl)}

\* The record ids 1..3 for which getTemplateByAirtableId finds a template.
FoundByAirtableId == {r \in 1..3 : GetTemplateByAirtableId(r) # NoTemplate}

\* C22: in every state, whichever refreshes are in flight, what the readers
\* get is the whole catalog of the latest completed rebuild: every usable
\* row of its record list is found by getTemplateByAirtableId and by
\* getTemplate, no other row is, and the rotation pools hold exactly the
\* usable rows of the asked format.
C22_WholeCatalog ==
    registry.refreshed =>
        LET rows == UsableRows(registry.lastRecords)
        IN  /\ FoundByAirtableId = {rec.id : rec \in rows}
            /\ \A rec \in rows :
                  /\ GetTemplateByAirtableId(rec.id) = TemplateOf(rec)
                  /\ GetTemplate(TemplateOf(rec).id).id = TemplateOf(rec).id
            /\ \A format \in {"png", "mp4"} :
                  PoolRecordIds(GetRotationPool(format, MaxImages,
                                                [given |-> FALSE, keys |-> {}]))
                     = {rec.id : rec \in {r \in rows : TemplateOf(r).outputFormat = format}}

\* C22 witness: a refresh is waiting for its records while the table has
\* changed, and the readers see the two templates of the earlier rebuild.
C22_Witness ==
    /\ registry.refreshed
    /\ registry.fetching # {}
    /\ registry.table # registry.lastRecords
    /\ registry.last.result = 2
    /\ Cardinality(FoundByAirtableId) = 2

\* C23: every template of the catalog whose output is mp4 has at least two
\* frames.
C23_VideoHasTwoFrames ==
    /\ \A r \in DOMAIN templatesByAirtableId :
          templatesByAirtableId[r].template.outputFormat = "mp4"
             => templatesByAirtableId[r].template.frames >= 2
    /\ \A id \in DOMAIN templatesByTemplateId :
          templatesByTemplateId[id].template.outputFormat = "mp4"
             => templatesByTemplateId[id].template.frames >= 2

\* C27: once the save request has been answered with success, getTemplate
\* returns the saved template.
C27_SavedStaysInRegistry ==
    (registry.save.pc = "done" /\ registry.save.responses = <<200>>) =>
        GetTemplate(registry.save.template.id) = registry.save.template

\* C28: a syncFromAirtable call whose fetch failed returns 0 and leaves the
\* record-id map as it was; the template-id map is left as it was when it
\* held a template, and becomes the built-in templates when it was empty.
C28_FailedRefreshKeepsCatalog ==
    [][(registry'.fetching # registry.fetching /\ registry'.last.failed
          /\ Cardinality(registry'.fetching) < Cardinality(registry.fetching)) =>
          /\ registry'.last.result = 0
          /\ templatesByAirtableId' = templatesByAirtableId
          /\ DOMAIN templatesByTemplateId # {}
                => templatesByTemplateId' = templatesByTemplateId
          /\ DOMAIN templatesByTemplateId = {}
                => /\ DOMAIN templatesByTemplateId' = BuiltinIds
                   /\ \A id \in BuiltinIds :
                         templatesByTemplateId'[id].template = BuiltinTemplate(id)]_vars

\* C28 witness: the latest refresh failed and the two templates of the
\* rebuild before it are still found.
C28_Witness ==
    /\ registry.last.failed
    /\ registry.refreshed
    /\ Cardinality(FoundByAirtableId) = 2
    /\ DOMAIN templatesByTemplateId # BuiltinIds
    /\ registry.table = registry.lastRecords


(***************************************************************************)
(* wrapText (utils/text.ts); strings are sequences of characters           *)
(***************************************************************************)

\* ctx.measureText(str).width: the sum of the widths of the characters; a
\* wide letter counts 2, every other character 1.
CharWidth(c) == IF c = "W" THEN 2 ELSE 1

RECURSIVE MeasureText(_)
MeasureText(str) ==
    IF str = <<>> THEN 0 ELSE CharWidth(Head(str)) + MeasureText(Tail(str))

Ellipsis == <<".", ".", ".">>

\* text.split(' '): the words between the spaces, empty ones included.
RECURSIVE Split(_, _)
Split(text, word) ==
    IF text = <<>> THEN <<word>>
    ELSE IF Head(text) = " " THEN <<word>> \o Split(Tail(text), <<>>)
    ELSE Split(Tail(text), Append(word, Head(text)))

\* A break decided on the width of the line so far instead of the width of
\* the line with the next word (a faulty variant, used to test C24).
OverflowsLate(testLine, currentLine, maxWidth) ==
    MeasureText(currentLine) > maxWidth /\ currentLine # <<>>

\* metrics.width > maxWidth && currentLine
Overflows(testLine, currentLine, maxWidth) ==
    MeasureText(testLine) > maxWidth /\ currentLine # <<>>

\* { text, width: ctx.measureText(text).width }
WrappedLine(text) == [text |-> text, width |-> MeasureText(text)]

\* The loop over the words and the push of the last line.
RECURSIVE WrapLoop(_, _, _, _, _)
WrapLoop(words, i, currentLine, lines, maxWidth) ==
    IF i > Len(words)
    THEN IF currentLine # <<>> THEN Append(lines, WrappedLine(currentLine)) ELSE lines
    ELSE LET word == words[i]
             testLine == IF currentLine # <<>> THEN currentLine \o <<" ">> \o word ELSE word
         IN  IF Overflows(testLine, currentLine, maxWidth)
             THEN WrapLoop(words, i + 1, word, Append(lines, WrappedLine(currentLine)),
                           maxWidth)
             ELSE WrapLoop(words, i + 1, testLine, lines, maxWidth)

\* str.trimEnd()
RECURSIVE TrimEnd(_)
TrimEnd(str) ==
    IF str # <<>> /\ str[Len(str)] = " " THEN TrimEnd(SubSeq(str, 1, Len(str) - 1))
    ELSE str

\* A truncation that appends the ellipsis without making room for it (a
\* faulty variant, used to test C25).
TruncateNoRoom(text, maxWidth) == text

\* while (measureText(text + '...').width > maxWidth && text.length > 0)
\*     text = text.slice(0, -1).trimEnd()
RECURSIVE Truncate(_, _)
Truncate(text, maxWidth) ==
    IF MeasureText(text \o Ellipsis) > maxWidth /\ Len(text) > 0
    THEN Truncate(TrimEnd(SubSeq(text, 1, Len(text) - 1)), maxWidth)
    ELSE text

\* wrapText(ctx, text, maxWidth, maxLines); maxLines 0 stands for a maxLines
\* that is not given.
WrapText(text, maxWidth, maxLines) ==
    LET lines == WrapLoop(Split(text, <<>>), 1, <<>>, <<>>, maxWidth)
    IN  IF maxLines # 0 /\ Len(lines) > maxLines
        THEN [k \in 1..maxLines |->
                IF k < maxLines THEN lines[k]
                ELSE WrappedLine(Truncate(lines[maxLines].text, maxWidth) \o Ellipsis)]
        ELSE lines

\* One call of wrapText.
WrapTextCall ==
    /\ ~wrapped.called
    /\ wrapped' = [wrapped EXCEPT
                     !.called = TRUE,
                     !.lines = WrapText(wrapped.text, wrapped.maxWidth, wrapped.maxLines)]
    /\ UNCHANGED <<hashVars, catVars, poolVars, rotVars, selVars, cacheVars, batchVars,
                   mp4Vars, paintVars, jobVars, syncVars, resolved>>

(***************************************************************************)
(* SpecWrap: wrapText over bounded texts                                   *)
(***************************************************************************)

MaxTextLen == 6
MaxWrapWidth == 5
MaxWrapLines == 2

\* A narrow letter, a wide letter and the space.
WrapChars == {"a", "W", " "}

WrapTexts == UNION {[1..n -> WrapChars] : n \in 0..MaxTextLen}

WrapInit ==
    /\ \E text \in WrapTexts, maxWidth \in 1..MaxWrapWidth, maxLines \in 0..MaxWrapLines :
          wrapped = [IdleWrap EXCEPT !.text = text, !.maxWidth = maxWidth,
                                     !.maxLines = maxLines]
    /\ batch = IdleBatch /\ Mp4Idle /\ paint = IdlePaint /\ job = IdleJob
    /\ registry = IdleRegistry /\ resolved = IdleResolve
    /\ templatesByAirtableId = EmptyMap
    /\ templatesByTemplateId = EmptyMap
    /\ HashIdle /\ PoolIdle /\ RotIdle /\ SelIdle /\ CacheIdle

WrapNext == WrapTextCall

SpecWrap == WrapInit /\ [][WrapNext]_vars

\* The words of the text handed to wrapText.
WordsOf(text) == {Split(text, <<>>)[i] : i \in 1..Len(Split(text, <<>>))}

\* The lines of the same text without a line limit.
GreedyLines == WrapText(wrapped.text, wrapped.maxWidth, 0)

\* The call cut the lines down to maxLines.
Truncated == wrapped.called /\ wrapped.maxLines >= 1 /\ Len(GreedyLines) > wrapped.maxLines

\* A line that is one word of the text, wider than maxWidth by itself.
OverflowingWord(line) ==
    /\ line.text \in WordsOf(wrapped.text)
    /\ MeasureText(line.text) > wrapped.maxWidth

\* C24 as stated: every returned line is at most maxWidth wide, unless it
\* is a single word of the text that is wider than maxWidth by itself.
C24_LinesFit ==
    wrapped.called =>
        \A k \in 1..Len(wrapped.lines) :
            \/ wrapped.lines[k].width <= wrapped.maxWidth
            \/ OverflowingWord(wrapped.lines[k])

\* C24 amended: every returned line is measured by measureText and is at
\* most maxWidth wide, unless it is a single word of the text wider than
\* maxWidth by itself, or it is the last line of a truncated result, is the
\* ellipsis alone, and maxWidth is smaller than the ellipsis.
C24_LinesFitOrEllipsis ==
    wrapped.called =>
        \A k \in 1..Len(wrapped.lines) :
            /\ wrapped.lines[k].width = MeasureText(wrapped.lines[k].text)
            /\ \/ wrapped.lines[k].width <= wrapped.maxWidth
               \/ OverflowingWord(wrapped.lines[k])
               \/ /\ Truncated /\ k = wrapped.maxLines
                  /\ wrapped.lines[k].text = Ellipsis
                  /\ wrapped.maxWidth < MeasureText(Ellipsis)

\* C24 witness: two lines were returned, one of them a word wider than
\* maxWidth and the other made of two words that fit.
C24_Witness ==
    /\ wrapped.called
    /\ Len(wrapped.lines) = 2
    /\ \E k \in 1..2 : OverflowingWord(wrapped.lines[k])
    /\ \E k \in 1..2 : " " \in {wrapped.lines[k].text[i] : i \in 1..Len(wrapped.lines[k].text)}
                        /\ wrapped.lines[k].width <= wrapped.maxWidth

\* s is a prefix of t
IsPrefix(s, t) == Len(s) <= Len(t) /\ s = SubSeq(t, 1, Len(s))

WordChars == {"t", "u", "x"}

\* The variables of a render: title is a string, user_images an array, and
\* no variable is called x.
RenderVars(title) == [title |-> title, user_images |-> <<<<"t">>, <<"-">>>>]

\* value.join(', ')
RECURSIVE Join(_)
Join(value) ==
    IF value = <<>> THEN <<>>
    ELSE IF Len(value) = 1 THEN value[1]
    ELSE value[1] \o <<",", " ">> \o Join(Tail(value))

\* The number of \w characters of text from position j on.
RECURSIVE WordRun(_, _)
WordRun(text, j) ==
    IF j <= Len(text) /\ text[j] \in WordChars THEN 1 + WordRun(text, j + 1) ELSE 0

\* /\{\{(\w+)\}\}/ matched at position i: the position of its last
\* character, or 0 when it does not match there.
MatchEnd(text, i) ==
    LET n == WordRun(text, i + 2)
    IN  IF /\ i + 1 <= Len(text) /\ text[i] = "{" /\ text[i + 1] = "{"
           /\ n >= 1
           /\ i + n + 3 <= Len(text) /\ text[i + n + 2] = "}" /\ text[i + n + 3] = "}"
        THEN i + n + 3
        ELSE 0

\* A replacement whose value is scanned for tokens again (a faulty variant,
\* used to test C26).
ReplacementExpands(key, variables) ==
    IF key = <<"t">>
    THEN IF variables.title = <<"{", "{", "u", "}", "}">> THEN Join(variables.user_images)
         ELSE variables.title
    ELSE IF key = <<"u">> THEN Join(variables.user_images)
    ELSE <<>>

\* The replacer callback: the value of variables[key] when it is a string,
\* its elements joined when it is an array, '' otherwise. t names the
\* title, u the user images.
Replacement(key, variables) ==
    IF key = <<"t">> THEN variables.title
    ELSE IF key = <<"u">> THEN Join(variables.user_images)
    ELSE <<>>

\* String.prototype.replace with the global pattern: the matches are found
\* from left to right in the text, each from the end of the one before.
RECURSIVE ReplaceAll(_, _, _)
ReplaceAll(text, i, variables) ==
    IF i > Len(text) THEN <<>>
    ELSE IF MatchEnd(text, i) # 0
    THEN Replacement(SubSeq(text, i + 2, MatchEnd(text, i) - 2), variables)
            \o ReplaceAll(text, MatchEnd(text, i) + 1, variables)
    ELSE <<text[i]>> \o ReplaceAll(text, i + 1, variables)

\* resolveVariables(text, variables)
ResolveVariables(text, variables) == ReplaceAll(text, 1, variables)

\* One call of resolveVariables.
ResolveCall ==
    /\ ~resolved.called
    /\ resolved' = [resolved EXCEPT
                      !.called = TRUE,
                      !.out = ResolveVariables(resolved.text, RenderVars(resolved.title))]
    /\ UNCHANGED <<hashVars, catVars, poolVars, rotVars, selVars, cacheVars, batchVars,
                   mp4Vars, paintVars, jobVars, syncVars, wrapped>>

(***************************************************************************)
(* SpecResolve: resolveVariables over texts built from pieces              *)
(***************************************************************************)

MaxPieces == 4

\* Single characters, and the tokens of the title, of the user images and
\* of a name no variable has.
Pieces ==
    {<<"{">>, <<"}">>, <<"t">>, <<"-">>,
     <<"{", "{", "t", "}", "}">>, <<"{", "{", "u", "}", "}">>, <<"{", "{", "x", "}", "}">>}

RECURSIVE Concat(_)
Concat(pieces) == IF pieces = <<>> THEN <<>> ELSE Head(pieces) \o Concat(Tail(pieces))

ResolveTexts == {Concat(ps) : ps \in UNION {[1..n -> Pieces] : n \in 0..MaxPieces}}

\* Titles: plain text, and text that is itself a token.
ResolveTitles == {<<"-", "-">>, <<"{", "{", "u", "}", "}">>}

ResolveInit ==
    /\ \E text \in ResolveTexts, title \in ResolveTitles :
          resolved = [IdleResolve EXCEPT !.text = text, !.title = title]
    /\ batch = IdleBatch /\ Mp4Idle /\ paint = IdlePaint /\ job = IdleJob
    /\ registry = IdleRegistry /\ wrapped = IdleWrap
    /\ templatesByAirtableId = EmptyMap
    /\ templatesByTemplateId = EmptyMap
    /\ HashIdle /\ PoolIdle /\ RotIdle /\ SelIdle /\ CacheIdle

ResolveNext == ResolveCall

SpecResolve == ResolveInit /\ [][ResolveNext]_vars

\* text[i..j] is a token {{identifier}}.
IsToken(text, i, j) ==
    /\ 1 <= i /\ i + 4 <= j /\ j <= Len(text)
    /\ text[i] = "{" /\ text[i + 1] = "{" /\ text[j - 1] = "}" /\ text[j] = "}"
    /\ \A k \in (i + 2)..(j - 2) : text[k] \in WordChars

\* What the claim says a token stands for.
ClaimedValue(identifier, title) ==
    CASE identifier = <<"t">> -> title
      [] identifier = <<"u">> -> <<"t", ",", " ", "-">>
      [] OTHER -> <<>>

\* The text with the tokens of the original text replaced, left to right.
RECURSIVE ClaimedFrom(_, _, _)
ClaimedFrom(text, i, title) ==
    IF i > Len(text) THEN <<>>
    ELSE IF \E j \in i..Len(text) : IsToken(text, i, j)
    THEN LET j == CHOOSE j \in i..Len(text) : IsToken(text, i, j)
         IN  ClaimedValue(SubSeq(text, i + 2, j - 2), title) \o ClaimedFrom(text, j + 1, title)
    ELSE <<text[i]>> \o ClaimedFrom(text, i + 1, title)

\* C26: the result is the original text with each {{identifier}} token
\* replaced, from left to right, by the string value, by the joined array
\* or by the empty string; the text outside the tokens is kept and a value
\* that holds a token is not expanded.
C26_SinglePass ==
    resolved.called => resolved.out = ClaimedFrom(resolved.text, 1, resolved.title)

\* C26 witness: the text held the title token between other text, the
\* title is itself a token, and the result holds the title unexpanded.
C26_Witness ==
    /\ resolved.called
    /\ resolved.title = <<"{", "{", "u", "}", "}">>
    /\ resolved.text = <<"{", "{", "{", "t", "}", "}", "{", "{", "x", "}", "}", "-">>
    /\ resolved.out = <<"{", "{", "{", "u", "}", "}", "-">>


\* The user image at place s of the job's URLs loaded.
UserImageLoaded(s) == Fulfilled(loads[s])

\* C29: the list handed to the compositor holds exactly the user images
\* that loaded, in URL order and without gaps; a layer with index i draws
\* the image of URL i+1 exactly when no URL up to that place failed, and
\* after a failure it draws, if anything, the image of a later URL.
C29_FailedLoadsShiftImages ==
    job.renderStarted =>
        LET n == Len(FilterBoolean(job.record.user_images))
        IN  /\ {job.images[k] : k \in 1..Len(job.images)} = {s \in 1..n : UserImageLoaded(s)}
            /\ \A k \in 1..(Len(job.images) - 1) : job.images[k] < job.images[k + 1]
            /\ Len(job.images) = job.userImages
            /\ \A index \in 0..(n - 1) :
                  /\ ImageAt(job.images, index) = index + 1
                        <=> \A s \in 1..(index + 1) : UserImageLoaded(s)
                  /\ (\E s \in 1..(index + 1) : ~UserImageLoaded(s)) =>
                        \/ ImageAt(job.images, index) = 0
                        \/ ImageAt(job.images, index) > index + 1

\* C29 witness: the first user image failed to load, the second loaded, and
\* a layer with index 0 draws the second.
C29_Witness ==
    /\ job.renderStarted
    /\ Len(FilterBoolean(job.record.user_images)) = 2
    /\ ~UserImageLoaded(1)
    /\ UserImageLoaded(2)
    /\ ImageAt(job.images, 0) = 2
    /\ ImageAt(job.images, 1) = 0


\* The kind of output a rotation does not select.
OtherKind(format) == IF format = "png" THEN "mp4" ELSE "png"

\* C30 (SpecSelect): the company records change only in the step in which a
\* rotating call's write lands, and then only the record of that call's
\* company, to the state the call read with the lastIndex of the selected
\* kind replaced; a call asks for the state only when no short-circuit
\* applies, it has a company id and its pool is not empty; a call that
\* returns at once (short-circuit, no company id, empty pool) leaves every
\* record as it is.
C30_RotationStateFrame ==
    [][/\ store' # store =>
            \E p \in Procs :
               /\ calls[p].pc = "writing" /\ calls'[p].pc = "done"
               /\ calls'[p].path = "rotation"
               /\ \A c \in Companies :
                     store'[c] # store[c] =>
                        /\ c = calls[p].companyId
                        /\ store'[c].present
                        /\ Parse(store'[c].text)[OtherKind(calls[p].format)]
                              = calls[p].state[OtherKind(calls[p].format)]
                        /\ Parse(store'[c].text)[calls[p].format]
                              = [lastIndex |->
                                    NextIndex(calls[p].state[calls[p].format].lastIndex,
                                              Len(calls[p].pool))]
       /\ \A p \in Procs :
             /\ (calls[p].pc = "idle" /\ calls'[p].pc = "reading") =>
                   /\ ShortCircuit(calls'[p].postType, calls'[p].categoryKeys,
                                   calls'[p].preferMp4, calls'[p].imageCount) = "none"
                   /\ calls'[p].companyId # ""
                   /\ Len(calls'[p].pool) > 0
             /\ (calls[p].pc = "idle" /\ calls'[p].pc = "done") =>
                   /\ calls'[p].path \in {"before_after", "slideshow", "hash"}
                   /\ store' = store
             /\ calls'[p].pc = "writing" => calls[p].pc \in {"reading", "writing"}]_vars

\* C30 witness: a rotating call read a state whose mp4 lastIndex is 1, its
\* write landed, and the record holds a new png lastIndex and the mp4
\* lastIndex 1.
C30_Witness ==
    \E p \in Procs :
        /\ calls[p].pc = "done"
        /\ calls[p].path = "rotation"
        /\ ~calls[p].writeFailed /\ ~calls[p].readFailed
        /\ calls[p].format = "png"
        /\ calls[p].state.mp4.lastIndex = 1
        /\ calls[p].updatedState.png # calls[p].state.png
        /\ store[calls[p].companyId] = Stringify(calls[p].updatedState)
        /\ Parse(store[calls[p].companyId].text).mp4.lastIndex = 1

\* The route calls autoSelectTemplate only for a record that is not skipped
\* and whose template id resolved to no template (SpecJob).
RouteSelectsOnlyWhenUnresolved ==
    job.pc = "selecting" =>
        /\ job.record.skip = "none"
        /\ job.record.template = NoJobTemplate
        /\ job.responses = <<>>

====
